---- MODULE Spec2Model ----
(***************************************************************************)
(* Channel Talk channel plugin for OpenClaw: the two HTTP entry points     *)
(* (webhook.ts handleChannelTalkWebhook, function.ts                       *)
(* handleChannelTalkFunction), the event pipeline processWebhookEvent, the *)
(* target registries and the gateway lifecycle of channel.ts.              *)
(*                                                                         *)
(* Strings that the code inspects character by character (message text,    *)
(* trigger keywords) are sequences of one-character strings; identifiers   *)
(* (chat ids, sender ids, account ids) are TLA+ strings.  A JavaScript     *)
(* undefined is the value None (identifiers) or Undef (texts).             *)
(***************************************************************************)
EXTENDS Integers, Sequences, FiniteSets, TLC

\* ---------------------------------------------------------------- bounds

\* Requests the platform delivers in one behaviour.
MaxRequests == 2
\* startAccount runs the host makes in one behaviour.
MaxRuns == 2
\* Reply payloads the agent pipeline hands to the deliver callback per event.
MaxChunks == 2
\* Calls of status.probeAccount and outbound.sendText the host makes in one behaviour.
MaxCalls == 2
\* Characters of a text handed to markdownToBlocks.
MaxMarkdownLen == 4

\* ------------------------------------------------------ JavaScript values

None == "<undefined>"
Undef == <<"<undefined>">>

\* a ?? b on identifiers
Coalesce(a, b) == IF a = None THEN b ELSE a

\* a || b on identifiers: undefined and "" are falsy
OrElse(a, b) == IF a = None \/ a = "" THEN b ELSE a

\* a || b on texts
OrElseText(a, b) == IF a = Undef \/ a = <<>> THEN b ELSE a

\* The backquote character (a string literal cannot hold it).
BQ == "bq"

IsSpace(c) == c = " " \/ c = "\n"

LowerChar(c) ==
  CASE c = "A" -> "a"
    [] c = "B" -> "b"
    [] c = "I" -> "i"
    [] OTHER -> c

\* String.prototype.toLowerCase
toLowerCase(s) == [i \in 1..Len(s) |-> LowerChar(s[i])]

RECURSIVE TrimLeft(_)
TrimLeft(s) == IF s # <<>> /\ IsSpace(Head(s)) THEN TrimLeft(Tail(s)) ELSE s

RECURSIVE TrimRight(_)
TrimRight(s) ==
  IF s # <<>> /\ IsSpace(s[Len(s)]) THEN TrimRight(SubSeq(s, 1, Len(s) - 1)) ELSE s

\* String.prototype.trim
trim(s) == TrimRight(TrimLeft(s))

\* String.prototype.includes
includes(s, kw) ==
  \E i \in 1..(Len(s) - Len(kw) + 1) : SubSeq(s, i, i + Len(kw) - 1) = kw

RECURSIVE JoinLines(_)
\* Array.prototype.join("\n")
JoinLines(parts) ==
  IF parts = <<>> THEN <<>>
  ELSE IF Len(parts) = 1 THEN parts[1]
  ELSE parts[1] \o <<"\n">> \o JoinLines(Tail(parts))

\* Index of the first ">" of s at or after position i, 0 when there is none.
RECURSIVE FirstGt(_, _)
FirstGt(s, i) ==
  IF i > Len(s) THEN 0 ELSE IF s[i] = ">" THEN i ELSE FirstGt(s, i + 1)

\* value.replace(/<[^>]+>/g, ""), scanning from position i
RECURSIVE StripTagsFrom(_, _)
StripTagsFrom(s, i) ==
  IF i > Len(s) THEN <<>>
  ELSE IF s[i] = "<" /\ i + 1 <= Len(s) /\ s[i + 1] # ">" /\ FirstGt(s, i + 1) # 0
       THEN StripTagsFrom(s, FirstGt(s, i + 1) + 1)
       ELSE <<s[i]>> \o StripTagsFrom(s, i + 1)

StripTags(s) == StripTagsFrom(s, 1)

\* The parts one block contributes to blocksToText.
RECURSIVE BulletParts(_)
BulletParts(subs) ==
  IF subs = <<>> THEN <<>>
  ELSE (IF Head(subs) # Undef /\ Head(subs) # <<>>
        THEN << <<"-", " ">> \o StripTags(Head(subs)) >> ELSE <<>>)
       \o BulletParts(Tail(subs))

BlockParts(b) ==
  IF b.type = "text" /\ b.value # Undef /\ b.value # <<>>
    THEN << StripTags(b.value) >>
  ELSE IF b.type = "code" /\ b.value # Undef /\ b.value # <<>>
    THEN << <<BQ, BQ, BQ, "\n">> \o b.value \o <<"\n", BQ, BQ, BQ>> >>
  ELSE IF b.type = "bullets" /\ b.hasBlocks
    THEN BulletParts(b.blocks)
  ELSE <<>>

RECURSIVE AllParts(_)
AllParts(blocks) ==
  IF blocks = <<>> THEN <<>> ELSE BlockParts(Head(blocks)) \o AllParts(Tail(blocks))

blocksToText(blocks) == JoinLines(AllParts(blocks))

\* String.prototype.split("\n"), on the text after position i with cur collected
RECURSIVE SplitLinesFrom(_, _, _)
SplitLinesFrom(s, i, cur) ==
  IF i > Len(s) THEN <<cur>>
  ELSE IF s[i] = "\n" THEN <<cur>> \o SplitLinesFrom(s, i + 1, <<>>)
  ELSE SplitLinesFrom(s, i + 1, Append(cur, s[i]))

SplitLines(s) == SplitLinesFrom(s, 1, <<>>)

\* The class \w of the characters the model's texts are made of.
IsWordChar(c) == c \in {"a", "b", "h", "i", "A", "B", "I", "_", "4", "5"}

\* line.match(/^```(\w*)$/)
isFence(line) ==
  /\ Len(line) >= 3
  /\ \A i \in 1..3 : line[i] = BQ
  /\ \A i \in 4..Len(line) : IsWordChar(line[i])

TextBlock(value) == [type |-> "text", value |-> value]
CodeBlock(value, language) == [type |-> "code", value |-> value, language |-> language]

\* flushText and flushCode of markdownToBlocks, on its local variables
flushText(st) ==
  IF st.textLines = <<>> THEN st
  ELSE [st EXCEPT !.textLines = <<>>,
          !.blocks = IF trim(JoinLines(st.textLines)) # <<>>
                     THEN Append(@, TextBlock(trim(JoinLines(st.textLines)))) ELSE @]

flushCode(st) ==
  IF st.codeLines = <<>> THEN st
  ELSE [st EXCEPT !.codeLines = <<>>, !.codeLang = <<>>,
          !.blocks = Append(@, CodeBlock(JoinLines(st.codeLines),
                                         IF st.codeLang = <<>> THEN Undef ELSE st.codeLang))]

\* One turn of the loop over the lines.
scanLine(st, line) ==
  IF isFence(line)
  THEN IF ~st.inCode
       THEN [flushText(st) EXCEPT !.inCode = TRUE, !.codeLang = SubSeq(line, 4, Len(line))]
       ELSE [flushCode(st) EXCEPT !.inCode = FALSE]
  ELSE IF st.inCode THEN [st EXCEPT !.codeLines = Append(@, line)]
  ELSE [st EXCEPT !.textLines = Append(@, line)]

RECURSIVE scanLines(_, _)
scanLines(st, lines) ==
  IF lines = <<>> THEN st ELSE scanLines(scanLine(st, Head(lines)), Tail(lines))

\* api.ts markdownToBlocks
markdownToBlocks(text) ==
  LET scanned == scanLines([blocks |-> <<>>, inCode |-> FALSE, codeLang |-> <<>>,
                            codeLines |-> <<>>, textLines |-> <<>>], SplitLines(text))
      flushed == flushText(IF scanned.inCode THEN flushCode(scanned) ELSE scanned)
  IN IF flushed.blocks # <<>> THEN flushed.blocks ELSE <<TextBlock(text)>>

\* ------------------------------------------------------------ event shapes

\* ChannelTalkWebhookEvent.entity (absent fields are None / Undef)
Entity(chatId, chatType, personType, personId, plainText, hasBlocks, blocks) ==
  [present |-> TRUE, chatId |-> chatId, chatType |-> chatType,
   personType |-> personType, personId |-> personId, plainText |-> plainText,
   hasBlocks |-> hasBlocks, blocks |-> blocks]

NoEntity == [present |-> FALSE]

\* ChannelTalkWebhookEvent.refers: the referenced chat, customer and manager
NoRef == [present |-> FALSE]
RefChat(id, name) == [present |-> TRUE, id |-> id, name |-> name]
RefUser(id, name, profileName) ==
  [present |-> TRUE, id |-> id, name |-> name, profileName |-> profileName]
RefManager(id, name) == [present |-> TRUE, id |-> id, name |-> name]

Refers(userChat, user, manager) ==
  [userChat |-> userChat, user |-> user, manager |-> manager]

WebhookEvent(event, type, entity, refers) ==
  [event |-> event, type |-> type, entity |-> entity, refers |-> refers]

\* x?.id
RefId(ref) == IF ref.present THEN ref.id ELSE None
RefName(ref) == IF ref.present THEN ref.name ELSE None
RefProfileName(ref) == IF ref.present THEN ref.profileName ELSE None

\* -------------------------------------------- processWebhookEvent, in parts

\* const chatType = message.chatType ?? "userChat"; isGroupChat
isGroupChat(message) == Coalesce(message.chatType, "userChat") = "group"

chatIdOfRefersFirst(event) == Coalesce(RefId(event.refers.userChat), event.entity.chatId)

\* const chatId = message.chatId ?? event.refers?.userChat?.id
chatIdOf(event) == Coalesce(event.entity.chatId, RefId(event.refers.userChat))

\* const rawBody = message.plainText?.trim() ?? (blocks ? blocksToText(blocks) : "").trim()
rawBodyOf(message) ==
  IF message.plainText # Undef THEN trim(message.plainText)
  ELSE trim(IF message.hasBlocks THEN blocksToText(message.blocks) ELSE <<>>)

\* target.triggerKeywords.some((kw) => lower.includes(kw.toLowerCase()))
triggered(rawBody, triggerKeywords) ==
  \E i \in 1..Len(triggerKeywords) :
    includes(toLowerCase(rawBody), toLowerCase(triggerKeywords[i]))

keywordGateAllChats(message, rawBody, target) ==
  Len(target.triggerKeywords) > 0 => triggered(rawBody, target.triggerKeywords)

\* The keyword gate of lines 160-165: TRUE when the event goes on.
keywordGate(message, rawBody, target) ==
  (isGroupChat(message) /\ Len(target.triggerKeywords) > 0)
    => triggered(rawBody, target.triggerKeywords)

passesFilterBotsToo(event, target) ==
  /\ event.type = "Message"
  /\ event.entity.present
  /\ chatIdOf(event) # None /\ chatIdOf(event) # ""
  /\ rawBodyOf(event.entity) # <<>>
  /\ keywordGate(event.entity, rawBodyOf(event.entity), target)

\* The early returns of processWebhookEvent, lines 138-165: TRUE when none is taken.
passesFilter(event, target) ==
  /\ event.type = "Message"
  /\ event.entity.present
  /\ event.entity.personType # "bot"
  /\ chatIdOf(event) # None /\ chatIdOf(event) # ""
  /\ rawBodyOf(event.entity) # <<>>
  /\ keywordGate(event.entity, rawBodyOf(event.entity), target)

\* Sender resolution, lines 167-185
isManagerBranch(event) ==
  event.entity.personType = "manager" /\ event.refers.manager.present

senderIdOfNoDefault(event) ==
  IF isManagerBranch(event)
  THEN Coalesce(event.entity.personId, event.refers.manager.id)
  ELSE Coalesce(event.entity.personId, RefId(event.refers.user))

senderIdOf(event) ==
  IF isManagerBranch(event)
  THEN Coalesce(event.entity.personId, Coalesce(event.refers.manager.id, "unknown"))
  ELSE Coalesce(event.entity.personId, Coalesce(RefId(event.refers.user), "unknown"))

senderNameOfNameFirst(event) ==
  IF isManagerBranch(event)
  THEN Coalesce(event.refers.manager.name, "Manager")
  ELSE Coalesce(RefName(event.refers.user),
         Coalesce(RefProfileName(event.refers.user),
           Coalesce(RefName(event.refers.userChat), "User")))

senderNameOf(event) ==
  IF isManagerBranch(event)
  THEN Coalesce(event.refers.manager.name, "Manager")
  ELSE Coalesce(RefProfileName(event.refers.user),
         Coalesce(RefName(event.refers.user),
           Coalesce(RefName(event.refers.userChat), "User")))

\* What the rest of processWebhookEvent keeps of the event once the filter passed.
localsOf(event) ==
  [chatId |-> chatIdOf(event),
   isGroup |-> isGroupChat(event.entity),
   rawBody |-> rawBodyOf(event.entity),
   senderId |-> senderIdOf(event),
   senderName |-> senderNameOf(event),
   personType |-> IF event.entity.personType = "manager" THEN "manager" ELSE "user"]

NoLocals ==
  [chatId |-> None, isGroup |-> FALSE, rawBody |-> Undef, senderId |-> None,
   senderName |-> None, personType |-> None]

\* The access check of lines 194-204 on the list read from the store.
dmPolicyOf(account) == Coalesce(account.dmPolicy, "pairing")

isAllowedByConfigOnly(senderId, configAllowFrom, storeList) ==
  senderId \in configAllowFrom \/ "*" \in configAllowFrom

isAllowed(senderId, configAllowFrom, storeList) ==
  senderId \in (configAllowFrom \cup storeList)
    \/ "*" \in (configAllowFrom \cup storeList)

\* ------------------------------------------ processFunctionRequest, in parts

\* ChannelTalkFunctionRequest: params.chat.id, params.chatId, params.chat.type,
\* params.chatType, params.input.message, params.value, context.caller
FunctionRequest(nestedId, flatId, nestedType, flatType, message, value, callerType, callerId) ==
  [chatNestedId |-> nestedId, chatId |-> flatId,
   chatNestedType |-> nestedType, chatType |-> flatType,
   inputMessage |-> message, value |-> value,
   callerType |-> callerType, callerId |-> callerId]

fnChatIdFlatFirst(request) == OrElse(request.chatId, request.chatNestedId)

\* const chatId = params.chat?.id || params.chatId
fnChatId(request) == OrElse(request.chatNestedId, request.chatId)

\* const chatType = params.chat?.type || params.chatType || "userChat"
fnChatType(request) == OrElse(OrElse(request.chatNestedType, request.chatType), "userChat")

\* const userInput = (params.input?.message || params.value || "").trim()
fnUserInput(request) == trim(OrElseText(OrElseText(request.inputMessage, request.value), <<>>))

fnCallerId(request) == Coalesce(request.callerId, "unknown")
fnCallerType(request) == Coalesce(request.callerType, "user")

\* The tagged result processFunctionRequest returns.
fnResult(request) ==
  IF fnChatId(request) = None \/ fnChatId(request) = "" THEN "Missing chatId in params"
  ELSE IF fnUserInput(request) = <<>> THEN "Missing user input"
  ELSE "ok"

\* The webhook event synthesized at lines 171-193.
fnWebhookEvent(request) ==
  WebhookEvent("push", "Message",
    Entity(fnChatId(request), fnChatType(request), fnCallerType(request),
           fnCallerId(request), fnUserInput(request), FALSE, <<>>),
    Refers(NoRef,
           IF fnCallerType(request) = "user"
             THEN RefUser(fnCallerId(request), "User", None) ELSE NoRef,
           IF fnCallerType(request) = "manager"
             THEN RefManager(fnCallerId(request), "Manager") ELSE NoRef))

fnWebhookTargetBotNameKeyword(target) ==
  [accountId |-> target.accountId, botName |-> target.botName,
   groupAllowFrom |-> {},
   triggerKeywords |-> IF target.botName # Undef /\ target.botName # <<>>
                       THEN <<target.botName>> ELSE <<>>]

\* The webhook target built from the function target at lines 196-203.
fnWebhookTarget(target) ==
  [accountId |-> target.accountId, botName |-> target.botName,
   groupAllowFrom |-> {}, triggerKeywords |-> <<>>]

\* ------------------------------------------------------------------ state

VARIABLES
  cfg,              \* api.config: account id -> ChannelTalkAccountConfig
  webhookTargets,   \* webhook.ts webhookTargets: account id -> WebhookTarget
  functionTargets,  \* function.ts functionTargets: account id -> FunctionTarget
  runs,             \* the startAccount runs the host has made, in order
  storeAllowFrom,   \* the pairing store's allow list for channel-talk
  pending,          \* the pairing store's pending requests: sender id -> code
  reqs,             \* the HTTP requests received, in order, each with its task
  calls             \* the host's calls of status.probeAccount and outbound.sendText

vars == <<cfg, webhookTargets, functionTargets, runs, storeAllowFrom, pending, reqs, calls>>

\* Map.set / Map.delete
MapSet(m, k, v) == [x \in DOMAIN m \cup {k} |-> IF x = k THEN v ELSE m[x]]
MapDelete(m, k) == [x \in DOMAIN m \ {k} |-> m[x]]
EmptyMap == [x \in {} |-> 0]

\* resolveAccount(cfg, id).configured
configured(account) == account.accessKey # "" /\ account.accessSecret # ""

sendMessageDirectOnly(chatType) == "sendUserChatMessage"

\* api.ts sendMessage: the variant the call is handed to.
sendMessage(chatType) ==
  IF chatType = "group" THEN "sendGroupMessage" ELSE "sendUserChatMessage"

\* An effect a request's handling has on the outside, as it is called; via is
\* the send variant of a send and the peer kind of a pipeline invocation.
Effect(op, chatId, chatType, senderId, code) ==
  [op |-> op, chatId |-> chatId, chatType |-> chatType, senderId |-> senderId,
   code |-> code, via |-> IF op = "send" THEN sendMessage(chatType) ELSE None]

Ack == Effect("ack", None, None, None, 0)

NoBody == [kind |-> "pending"]
NoTarget == [accountId |-> None]

\* A request answered without a task.
Closed(entry, method, accountId, status) ==
  [entry |-> entry, method |-> method, accountId |-> accountId, status |-> status,
   pc |-> "closed",
   body |-> NoBody, target |-> NoTarget, loc |-> NoLocals, log |-> <<>>,
   errs |-> 0, chunks |-> 0, surfaced |-> 0, code |-> 0, created |-> FALSE,
   totalBytes |-> 0, buffered |-> 0, dataEvents |-> 0, result |-> None,
   payloads |-> <<>>]

\* A request whose target was found and whose body is being read.
Reading(entry, method, accountId, target) ==
  [entry |-> entry, method |-> method, accountId |-> accountId, status |-> 0,
   pc |-> "reading",
   body |-> NoBody, target |-> target, loc |-> NoLocals, log |-> <<>>,
   errs |-> 0, chunks |-> 0, surfaced |-> 0, code |-> 0, created |-> FALSE,
   totalBytes |-> 0, buffered |-> 0, dataEvents |-> 0, result |-> None,
   payloads |-> <<>>]

\* cfg.channels?.["channel-talk"]?.accounts?.[accountId] ?? {}
UndefList == <<Undef>>
EmptyAccount ==
  [accessKey |-> "", accessSecret |-> "", botName |-> Undef, dmPolicy |-> None,
   allowFrom |-> {}, groupAllowFrom |-> {}, triggerKeywords |-> UndefList]

accountOf(config, accountId) ==
  IF accountId \in DOMAIN config THEN config[accountId] ELSE EmptyAccount

\* ------------------------------------------------ gateway (channel.ts)

\* account.config.triggerKeywords ?? (account.botName ? [account.botName] : [])
startTriggerKeywords(account) ==
  IF account.triggerKeywords # UndefList THEN account.triggerKeywords
  ELSE IF account.botName # Undef /\ account.botName # <<>> THEN <<account.botName>>
  ELSE <<>>

startWebhookTarget(accountId, account) ==
  [accountId |-> accountId, botName |-> account.botName,
   groupAllowFrom |-> account.groupAllowFrom,
   triggerKeywords |-> startTriggerKeywords(account)]

startFunctionTarget(accountId, account) ==
  [accountId |-> accountId, botName |-> account.botName]

\* gateway.startAccount up to the promise it returns: an unconfigured account
\* is skipped, a configured one is registered in both registries.
StartAccount(accountId, maxRuns) ==
  /\ Len(runs) < maxRuns
  /\ LET account == accountOf(cfg, accountId) IN
       IF ~configured(account)
       THEN /\ runs' = Append(runs, [accountId |-> accountId, state |-> "skipped"])
            /\ UNCHANGED <<webhookTargets, functionTargets>>
       ELSE /\ webhookTargets' =
                 MapSet(webhookTargets, accountId, startWebhookTarget(accountId, account))
            /\ functionTargets' =
                 MapSet(functionTargets, accountId, startFunctionTarget(accountId, account))
            /\ runs' = Append(runs, [accountId |-> accountId, state |-> "active"])
  /\ UNCHANGED <<cfg, storeAllowFrom, pending, reqs, calls>>

AbortWebhookOnly(i) ==
  /\ runs[i].state = "active"
  /\ webhookTargets' = MapDelete(webhookTargets, runs[i].accountId)
  /\ runs' = [runs EXCEPT ![i].state = "stopped"]
  /\ UNCHANGED <<cfg, functionTargets, storeAllowFrom, pending, reqs, calls>>

AbortCancelsTasks(i) ==
  /\ runs[i].state = "active"
  /\ webhookTargets' = MapDelete(webhookTargets, runs[i].accountId)
  /\ functionTargets' = MapDelete(functionTargets, runs[i].accountId)
  /\ runs' = [runs EXCEPT ![i].state = "stopped"]
  /\ reqs' = [r \in 1..Len(reqs) |->
       IF reqs[r].accountId = runs[i].accountId
          /\ reqs[r].pc \in {"reading", "readStore", "upsert", "pairSend", "dispatch",
                             "deliverSend"}
       THEN [reqs[r] EXCEPT !.pc = "failed"]
       ELSE reqs[r]]
  /\ UNCHANGED <<cfg, storeAllowFrom, pending, calls>>

\* The abort listener of run i: both registries drop the account id.
Abort(i) ==
  /\ runs[i].state = "active"
  /\ webhookTargets' = MapDelete(webhookTargets, runs[i].accountId)
  /\ functionTargets' = MapDelete(functionTargets, runs[i].accountId)
  /\ runs' = [runs EXCEPT ![i].state = "stopped"]
  /\ UNCHANGED <<cfg, storeAllowFrom, pending, reqs, calls>>

\* ------------------------------------------------ the event pipeline

\* resolveAgentRoute, finalizeInboundContext and the call of
\* dispatchReplyWithBufferedBlockDispatcher (lines 247-308)
dispatch(req, loc) ==
  [req EXCEPT !.pc = "dispatch", !.loc = loc,
     !.log = Append(@, [Effect("pipeline", loc.chatId,
                               IF loc.isGroup THEN "channel" ELSE "direct",
                               loc.senderId, 0)
                          EXCEPT !.via = IF loc.isGroup THEN "group" ELSE "dm"])]

\* processWebhookEvent from its call to its first await (or its return).
processWebhookEvent(req, event, target, config) ==
  IF ~passesFilter(event, target) THEN [req EXCEPT !.pc = "returned", !.target = target]
  ELSE IF dmPolicyOf(accountOf(config, target.accountId)) = "pairing"
  THEN [req EXCEPT !.pc = "readStore", !.target = target, !.loc = localsOf(event),
          !.log = Append(@, Effect("readAllowFromStore", None, None, None, 0))]
  ELSE dispatch([req EXCEPT !.target = target], localsOf(event))

\* processFunctionRequest: the tagged failure is returned to a caller that
\* drops it; otherwise processWebhookEvent runs on the synthesized event.
processFunctionRequest(req, request, target, config) ==
  IF fnResult(request) # "ok"
  THEN [req EXCEPT !.pc = "returned", !.result = fnResult(request)]
  ELSE processWebhookEvent([req EXCEPT !.result = "ok"], fnWebhookEvent(request),
                           fnWebhookTarget(target), config)

\* ------------------------------------------------ the HTTP handlers

expectedMethod(entry) == IF entry = "webhook" THEN "POST" ELSE "PUT"
registryOf(entry) == IF entry = "webhook" THEN webhookTargets ELSE functionTargets

lookupOrDefault(registry, accountId) ==
  IF accountId \in DOMAIN registry
  THEN [found |-> TRUE, target |-> registry[accountId]]
  ELSE [found |-> TRUE, target |-> startWebhookTarget(accountId, EmptyAccount)]

\* const target = webhookTargets.get(accountId); if (!target) ...
lookup(registry, accountId) ==
  IF accountId \in DOMAIN registry
  THEN [found |-> TRUE, target |-> registry[accountId]]
  ELSE [found |-> FALSE, target |-> NoTarget]

\* handleChannelTalkWebhook / handleChannelTalkFunction up to `await readJsonBody`
Receive(entry, method, accountId, maxRequests) ==
  /\ Len(reqs) < maxRequests
  /\ reqs' = Append(reqs,
       IF method # expectedMethod(entry) THEN Closed(entry, method, accountId, 405)
       ELSE IF ~lookup(registryOf(entry), accountId).found
         THEN Closed(entry, method, accountId, 404)
       ELSE Reading(entry, method, accountId, lookup(registryOf(entry), accountId).target))
  /\ UNCHANGED <<cfg, webhookTargets, functionTargets, runs, storeAllowFrom, pending, calls>>

acknowledgeLate(req, body, config) ==
  LET read == [req EXCEPT !.body = body]
      processed == IF req.entry = "webhook"
                   THEN processWebhookEvent(read, body.data, req.target, config)
                   ELSE processFunctionRequest(read, body.data, req.target, config)
  IN [processed EXCEPT !.status = 200, !.log = Append(@, Ack)]

\* The acknowledgment and the call of the background task (lines 80-88 / 94-107).
acknowledge(req, body, config) ==
  LET acked == [req EXCEPT !.status = 200, !.body = body, !.log = <<Ack>>] IN
    IF req.entry = "webhook"
    THEN processWebhookEvent(acked, body.data, req.target, config)
    ELSE processFunctionRequest(acked, body.data, req.target, config)

JsonBody(data) == [kind |-> "json", data |-> data]
TooLarge == [kind |-> "payload_too_large"]
BadBodies == {[kind |-> "invalid_json"], [kind |-> "read_error"], TooLarge}

\* readJsonBody resolves with a failure or with the parsed body, and the
\* rest of the handler runs to its return.
afterBody(req, body, config) ==
  IF body.kind # "json"
  THEN [req EXCEPT !.status = IF body.kind = "payload_too_large" THEN 413 ELSE 400,
                   !.body = body, !.pc = "closed"]
  ELSE acknowledge(req, body, config)

BodyEnd(r, events, requests) ==
  /\ reqs[r].pc = "reading"
  /\ \E body \in BadBodies \cup
                 {JsonBody(d) : d \in IF reqs[r].entry = "webhook" THEN events ELSE requests} :
       reqs' = [reqs EXCEPT ![r] = afterBody(@, body, cfg)]
  /\ UNCHANGED <<cfg, webhookTargets, functionTargets, runs, storeAllowFrom, pending, calls>>

\* ------------------------------------------------ readJsonBody, event by event

\* The cap both handlers pass to readJsonBody: 5 * 1024 * 1024.
maxBytes == 5 * 1024 * 1024

\* Data events the stream emits for one request.
MaxDataEvents == 2

overCapInclusive(totalBytes, cap) == totalBytes >= cap

\* if (totalBytes > maxBytes)
overCap(totalBytes, cap) == totalBytes > cap

\* req.on("data"): the chunk is counted; over the cap the stream is destroyed
\* and the promise resolves with payload_too_large, so the handler goes on to
\* its 413; otherwise the chunk is pushed.
onData(req, len, config) ==
  LET counted == [req EXCEPT !.totalBytes = @ + len, !.dataEvents = @ + 1] IN
    IF overCap(counted.totalBytes, maxBytes)
    THEN afterBody(counted, TooLarge, config)
    ELSE [counted EXCEPT !.buffered = @ + len]

DataEvent(r, len) ==
  /\ reqs[r].pc = "reading"
  /\ reqs[r].dataEvents < MaxDataEvents
  /\ reqs' = [reqs EXCEPT ![r] = onData(@, len, cfg)]
  /\ UNCHANGED <<cfg, webhookTargets, functionTargets, runs, storeAllowFrom, pending, calls>>

\* A chunk that was already on its way when the stream was destroyed: the
\* data listener counts it and returns, resolve() of a settled promise does
\* nothing.
LateDataEvent(r, len) ==
  /\ reqs[r].body = TooLarge
  /\ reqs[r].dataEvents < MaxDataEvents
  /\ reqs' = [reqs EXCEPT ![r].totalBytes = @ + len, ![r].dataEvents = @ + 1]
  /\ UNCHANGED <<cfg, webhookTargets, functionTargets, runs, storeAllowFrom, pending, calls>>

\* req.on("end"): the chunks pushed so far are parsed; an empty body is not
\* JSON.  req.on("error") resolves with read_error.
StreamEnd(r, events, requests) ==
  /\ reqs[r].pc = "reading"
  /\ \E body \in {[kind |-> "invalid_json"], [kind |-> "read_error"]} \cup
                 {JsonBody(d) : d \in IF reqs[r].buffered = 0 THEN {}
                                      ELSE IF reqs[r].entry = "webhook" THEN events
                                      ELSE requests} :
       reqs' = [reqs EXCEPT ![r] = afterBody(@, body, cfg)]
  /\ UNCHANGED <<cfg, webhookTargets, functionTargets, runs, storeAllowFrom, pending, calls>>

\* ------------------------------------------------ the pairing store

\* runtime.channel.pairing.upsertPairingRequest, atomic and idempotent: a
\* pending sender keeps its code, a new one gets a fresh code.
upsertPairingRequest(store, id) ==
  IF id \in DOMAIN store
  THEN [store |-> store, code |-> store[id], created |-> FALSE]
  ELSE [store |-> MapSet(store, id, Cardinality(DOMAIN store) + 1),
        code |-> Cardinality(DOMAIN store) + 1, created |-> TRUE]

\* ------------------------------------------------ the task after each await

\* `await readAllowFromStore` resumes: lines 203-214, or on to the dispatch.
afterStoreRead(req, configAllowFrom, storeList) ==
  IF isAllowed(req.loc.senderId, configAllowFrom, storeList)
  THEN dispatch(req, req.loc)
  ELSE [req EXCEPT !.pc = "upsert",
          !.log = Append(@, Effect("upsertPairingRequest", None, None,
                                   req.loc.senderId, 0))]

StoreReadReturns(r) ==
  /\ reqs[r].pc = "readStore"
  /\ reqs' = [reqs EXCEPT ![r] =
       afterStoreRead(@, accountOf(cfg, @.target.accountId).allowFrom, storeAllowFrom)]
  /\ UNCHANGED <<cfg, webhookTargets, functionTargets, runs, storeAllowFrom, pending, calls>>

afterUpsertToSender(req, code, created) ==
  IF created
  THEN [req EXCEPT !.pc = "pairSend", !.code = code, !.created = TRUE,
          !.log = Append(@, Effect("send", req.loc.senderId,
                                   IF req.loc.isGroup THEN "group" ELSE "userChat",
                                   req.loc.senderId, code))]
  ELSE [req EXCEPT !.pc = "done", !.code = code]

afterUpsertAlwaysSend(req, code, created) ==
  [req EXCEPT !.pc = "pairSend", !.code = code, !.created = created,
     !.log = Append(@, Effect("send", req.loc.chatId,
                              IF req.loc.isGroup THEN "group" ELSE "userChat",
                              req.loc.senderId, code))]

\* `await upsertPairingRequest` resumes: lines 216-243.
afterUpsert(req, code, created) ==
  IF created
  THEN [req EXCEPT !.pc = "pairSend", !.code = code, !.created = TRUE,
          !.log = Append(@, Effect("send", req.loc.chatId,
                                   IF req.loc.isGroup THEN "group" ELSE "userChat",
                                   req.loc.senderId, code))]
  ELSE [req EXCEPT !.pc = "done", !.code = code]

UpsertReturns(r) ==
  /\ reqs[r].pc = "upsert"
  /\ LET res == upsertPairingRequest(pending, reqs[r].loc.senderId) IN
       /\ pending' = res.store
       /\ reqs' = [reqs EXCEPT ![r] = afterUpsert(@, res.code, res.created)]
  /\ UNCHANGED <<cfg, webhookTargets, functionTargets, runs, storeAllowFrom, calls>>

\* `await sendMessage` of the pairing prompt resumes, ok or not: line 240, 243.
PairSendReturns(r) ==
  /\ reqs[r].pc = "pairSend"
  /\ reqs' = [reqs EXCEPT ![r].pc = "done"]
  /\ UNCHANGED <<cfg, webhookTargets, functionTargets, runs, storeAllowFrom, pending, calls>>

\* An awaited call of the task rejects: processWebhookEvent rejects and the
\* handler's .catch logs it.
TaskThrows(r) ==
  /\ reqs[r].pc \in {"readStore", "upsert", "pairSend"}
  /\ reqs' = [reqs EXCEPT ![r].pc = "failed", ![r].errs = @ + 1]
  /\ UNCHANGED <<cfg, webhookTargets, functionTargets, runs, storeAllowFrom, pending, calls>>

\* The store's list lets the sender through and resolveAgentRoute or
\* finalizeInboundContext throws (lines 248-282): processWebhookEvent rejects
\* before the pipeline is called and the handler's .catch logs it.
RouteThrows(r) ==
  /\ reqs[r].pc = "readStore"
  /\ isAllowed(reqs[r].loc.senderId, accountOf(cfg, reqs[r].target.accountId).allowFrom,
               storeAllowFrom)
  /\ reqs' = [reqs EXCEPT ![r].pc = "failed", ![r].errs = @ + 1]
  /\ UNCHANGED <<cfg, webhookTargets, functionTargets, runs, storeAllowFrom, pending, calls>>

\* The pipeline hands a reply payload to the deliver callback (lines 289-301).
Deliver(r, text) ==
  /\ reqs[r].pc = "dispatch"
  /\ reqs[r].chunks < MaxChunks
  /\ reqs' = [reqs EXCEPT ![r] =
       IF text = Undef \/ trim(text) = <<>>
       THEN [@ EXCEPT !.chunks = @ + 1, !.payloads = Append(@, text)]
       ELSE [@ EXCEPT !.chunks = @ + 1, !.payloads = Append(@, text),
               !.pc = "deliverSend",
               !.log = Append(@, Effect("send", reqs[r].loc.chatId,
                                        IF reqs[r].loc.isGroup THEN "group" ELSE "userChat",
                                        reqs[r].loc.senderId, 0))]]
  /\ UNCHANGED <<cfg, webhookTargets, functionTargets, runs, storeAllowFrom, pending, calls>>

DeliverSendRetries(r, ok) ==
  /\ reqs[r].pc = "deliverSend"
  /\ reqs' = [reqs EXCEPT ![r] =
       IF ok THEN [@ EXCEPT !.pc = "dispatch"]
       ELSE [@ EXCEPT !.errs = @ + 1, !.log = Append(@, @[Len(@)])]]
  /\ UNCHANGED <<cfg, webhookTargets, functionTargets, runs, storeAllowFrom, pending, calls>>

\* sendMessage resolves inside deliver: a failed result is logged (line 298).
DeliverSendReturns(r, ok) ==
  /\ reqs[r].pc = "deliverSend"
  /\ reqs' = [reqs EXCEPT ![r].pc = "dispatch",
                          ![r].errs = IF ok THEN @ ELSE @ + 1]
  /\ UNCHANGED <<cfg, webhookTargets, functionTargets, runs, storeAllowFrom, pending, calls>>

\* sendMessage rejects inside deliver (fetch or res.json() throws): nothing
\* catches it in deliver, so the rejection reaches the pipeline.
DeliverSendThrows(r) ==
  /\ reqs[r].pc = "deliverSend"
  /\ reqs' = [reqs EXCEPT ![r].pc = "dispatch", ![r].surfaced = @ + 1]
  /\ UNCHANGED <<cfg, webhookTargets, functionTargets, runs, storeAllowFrom, pending, calls>>

\* dispatchReplyWithBufferedBlockDispatcher resolves.
PipelineReturns(r) ==
  /\ reqs[r].pc = "dispatch"
  /\ reqs' = [reqs EXCEPT ![r].pc = "done"]
  /\ UNCHANGED <<cfg, webhookTargets, functionTargets, runs, storeAllowFrom, pending, calls>>

PipelineThrowsRequeues(r) ==
  /\ reqs[r].pc = "dispatch"
  /\ reqs' = [reqs EXCEPT ![r] = dispatch([@ EXCEPT !.errs = @ + 1], @.loc)]
  /\ UNCHANGED <<cfg, webhookTargets, functionTargets, runs, storeAllowFrom, pending, calls>>

PipelineThrowsUnregisters(r) ==
  /\ reqs[r].pc = "dispatch"
  /\ reqs' = [reqs EXCEPT ![r].pc = "failed", ![r].errs = @ + 1]
  /\ webhookTargets' = MapDelete(webhookTargets, reqs[r].accountId)
  /\ UNCHANGED <<cfg, functionTargets, runs, storeAllowFrom, pending, calls>>

\* dispatchReplyWithBufferedBlockDispatcher rejects: the handler's .catch logs it.
PipelineThrows(r) ==
  /\ reqs[r].pc = "dispatch"
  /\ reqs' = [reqs EXCEPT ![r].pc = "failed", ![r].errs = @ + 1]
  /\ UNCHANGED <<cfg, webhookTargets, functionTargets, runs, storeAllowFrom, pending, calls>>

\* ------------------------------------------------ the host's calls (channel.ts)

\* The timeoutMs argument of probeAccount, given or not.
TimeoutMs(ms) == [given |-> TRUE, ms |-> ms]
NoTimeoutMs == [given |-> FALSE]

\* status.probeAccount up to `await getChannel(account.creds)`: an unconfigured
\* account is answered at once; otherwise the timer is armed and one GET
\* /channel request is made.  The controller's signal is handed to nobody.
probeAccount(accountId, account, timeoutMs) ==
  IF ~configured(account)
  THEN [op |-> "probeAccount", accountId |-> accountId, pc |-> "done",
        result |-> "not configured", timer |-> "none", delay |-> 0,
        aborted |-> FALSE, requests |-> 0]
  ELSE [op |-> "probeAccount", accountId |-> accountId, pc |-> "waiting",
        result |-> None, timer |-> "armed",
        delay |-> IF timeoutMs.given THEN timeoutMs.ms ELSE 5000,
        aborted |-> FALSE, requests |-> 1]

ProbeAccount(accountId, timeoutMs, maxCalls) ==
  /\ Len(calls) < maxCalls
  /\ calls' = Append(calls, probeAccount(accountId, accountOf(cfg, accountId), timeoutMs))
  /\ UNCHANGED <<cfg, webhookTargets, functionTargets, runs, storeAllowFrom, pending, reqs>>

\* setTimeout(() => controller.abort(), timeoutMs ?? 5000), line 324
onProbeTimer(call) == [call EXCEPT !.timer = "fired", !.aborted = TRUE]

\* The delay elapses while getChannel is pending.
ProbeTimerFires(c) ==
  /\ calls[c].op = "probeAccount"
  /\ calls[c].pc = "waiting"
  /\ calls[c].timer = "armed"
  /\ calls' = [calls EXCEPT ![c] = onProbeTimer(@)]
  /\ UNCHANGED <<cfg, webhookTargets, functionTargets, runs, storeAllowFrom, pending, reqs>>

\* getChannel resolves (ok or not) or rejects: clearTimeout and return, lines 326-332.
afterGetChannel(call, outcome) ==
  [call EXCEPT !.pc = "done", !.result = outcome,
               !.timer = IF @ = "armed" THEN "cleared" ELSE @]

ProbeEnds(c, outcome) ==
  /\ calls[c].op = "probeAccount"
  /\ calls[c].pc = "waiting"
  /\ calls' = [calls EXCEPT ![c] = afterGetChannel(@, outcome)]
  /\ UNCHANGED <<cfg, webhookTargets, functionTargets, runs, storeAllowFrom, pending, reqs>>

\* s.startsWith(p)
startsWith(s, p) == Len(s) >= Len(p) /\ SubSeq(s, 1, Len(p)) = p

ChannelPrefix == <<"c", "h", "a", "n", "n", "e", "l", "-", "t", "a", "l", "k", ":">>
GroupPrefix == <<"g", "r", "o", "u", "p", ":">>

\* to.replace(/^channel-talk:/i, "")
stripChannelPrefix(to) ==
  IF Len(to) >= Len(ChannelPrefix) /\ toLowerCase(SubSeq(to, 1, Len(ChannelPrefix))) = ChannelPrefix
  THEN SubSeq(to, Len(ChannelPrefix) + 1, Len(to)) ELSE to

\* raw.replace(/^group:/, "")
stripGroupPrefix(raw) ==
  IF startsWith(raw, GroupPrefix) THEN SubSeq(raw, Len(GroupPrefix) + 1, Len(raw)) ELSE raw

\* const isGroup = raw.startsWith("group:") || raw.startsWith("@")
isGroupTarget(raw) == startsWith(raw, GroupPrefix) \/ startsWith(raw, <<"@">>)

\* outbound.sendText up to `await sendMessage(...)`: an unconfigured account is
\* answered with an error; otherwise one send call is made, whose variant
\* follows the target's prefix and whose body holds the blocks of the text.
sendText(accountId, account, to, text) ==
  IF ~configured(account)
  THEN [op |-> "sendText", accountId |-> accountId, to |-> to, text |-> text,
        pc |-> "done", result |-> "Channel Talk account not configured", sends |-> <<>>]
  ELSE [op |-> "sendText", accountId |-> accountId, to |-> to, text |-> text,
        pc |-> "waiting", result |-> None,
        sends |-> <<[via |-> sendMessage(IF isGroupTarget(stripChannelPrefix(to))
                                         THEN "group" ELSE "userChat"),
                     chatId |-> stripGroupPrefix(stripChannelPrefix(to)),
                     blocks |-> markdownToBlocks(text)]>>]

SendText(accountId, to, text, maxCalls) ==
  /\ Len(calls) < maxCalls
  /\ calls' = Append(calls, sendText(accountId, accountOf(cfg, accountId), to, text))
  /\ UNCHANGED <<cfg, webhookTargets, functionTargets, runs, storeAllowFrom, pending, reqs>>

\* sendMessage resolves, ok or not, and sendText returns its result (lines
\* 223-224), or it rejects and so does sendText.
SendTextEnds(c, outcome) ==
  /\ calls[c].op = "sendText"
  /\ calls[c].pc = "waiting"
  /\ calls' = [calls EXCEPT ![c].pc = "done", ![c].result = outcome]
  /\ UNCHANGED <<cfg, webhookTargets, functionTargets, runs, storeAllowFrom, pending, reqs>>

\* ------------------------------------------------ inputs and specifications

AccountIds == {"default", "spare"}
Entries == {"webhook", "function"}
Methods == {"POST", "PUT"}

\* The account "default" has credentials, "spare" has none.
Account(dmPolicy, allowFrom, triggerKeywords) ==
  [accessKey |-> "key", accessSecret |-> "secret", botName |-> Undef,
   dmPolicy |-> dmPolicy, allowFrom |-> allowFrom, groupAllowFrom |-> {},
   triggerKeywords |-> triggerKeywords]

Config(account) ==
  [a \in AccountIds |-> IF a = "default" THEN account ELSE EmptyAccount]

KwAi == <<"A", "i">>
TextAi == <<"a", "I">>
TextHi == <<"h", "i">>

CoreConfigs ==
  {Config(Account(None, allow, <<KwAi>>)) : allow \in {{}, {"u2"}}}

CoreEvents ==
  {WebhookEvent("push", "Message",
                Entity("c1", ct, pt, pid, TextAi, FALSE, <<>>),
                Refers(NoRef, NoRef, NoRef)) :
     ct \in {"group", "userChat"}, pt \in {"user", "bot"}, pid \in {"u1", "u2"}}

CoreFunctionRequests ==
  {FunctionRequest(None, cid, None, "group", Undef, val, ctype, "u1") :
     cid \in {"c1", None}, val \in {TextHi, <<" ">>}, ctype \in {"user", "bot"}}

CorePayloads == {TextHi, <<" ">>}

InitWith(configs, stores) ==
  /\ cfg \in configs
  /\ storeAllowFrom \in stores
  /\ webhookTargets = EmptyMap
  /\ functionTargets = EmptyMap
  /\ runs = <<>>
  /\ pending = EmptyMap
  /\ reqs = <<>>
  /\ calls = <<>>

Init == InitWith(CoreConfigs, {{}})

Next ==
  \/ \E a \in AccountIds : StartAccount(a, MaxRuns)
  \/ \E i \in 1..Len(runs) : Abort(i)
  \/ \E e \in Entries, m \in Methods, a \in AccountIds : Receive(e, m, a, MaxRequests)
  \/ \E r \in 1..Len(reqs) : BodyEnd(r, CoreEvents, CoreFunctionRequests)
  \/ \E r \in 1..Len(reqs) : StoreReadReturns(r)
  \/ \E r \in 1..Len(reqs) : UpsertReturns(r)
  \/ \E r \in 1..Len(reqs) : PairSendReturns(r)
  \/ \E r \in 1..Len(reqs) : TaskThrows(r)
  \/ \E r \in 1..Len(reqs) : \E t \in CorePayloads : Deliver(r, t)
  \/ \E r \in 1..Len(reqs) : \E ok \in BOOLEAN : DeliverSendReturns(r, ok)
  \/ \E r \in 1..Len(reqs) : DeliverSendThrows(r)
  \/ \E r \in 1..Len(reqs) : PipelineReturns(r)
  \/ \E r \in 1..Len(reqs) : PipelineThrows(r)

Spec == Init /\ [][Next]_vars

\* One run of the account and one request, with every field of the event, of the function
\* request and of the account's access policy varied.
AllRefs == Refers(RefChat("c2", "Chat"), RefUser("u2", "Bob", None), RefManager("u1", "Alice"))
NoRefs == Refers(NoRef, NoRef, NoRef)

WideEntities ==
  {Entity(cid, ct, pt, pid, txt, FALSE, <<>>) :
     cid \in {"c1", None}, ct \in {"group", "userChat"},
     pt \in {"user", "manager", "bot"}, pid \in {"u1", "u2", None},
     txt \in {TextAi, TextHi, <<" ">>}}

WideEvents ==
  {WebhookEvent(ev, "Message", en, rf) :
     ev \in {"push", "update"}, en \in WideEntities, rf \in {NoRefs, AllRefs}}
  \cup {WebhookEvent("push", "Message", NoEntity, AllRefs)}
  \cup {WebhookEvent("push", ty, Entity("c1", "userChat", "user", "u1", TextHi, FALSE, <<>>),
                     AllRefs) : ty \in {"UserChat", None}}

WideFunctionRequests ==
  {FunctionRequest(nid, cid, nty, None, msg, val, ctype, caller) :
     nid \in {"c1", None}, cid \in {"c2", None}, nty \in {"group", None},
     msg \in {TextHi, Undef}, val \in {<<" ">>, Undef},
     ctype \in {"user", "manager", "bot", None}, caller \in {"u1", None}}

WideConfigs ==
  {Config(Account(policy, allow, <<KwAi>>)) :
     policy \in {None, "pairing", "open", "allowlist", "disabled"},
     allow \in {{}, {"u1"}, {"*"}}}

WideStores == {{}, {"u2"}}

InitOne == InitWith(WideConfigs, WideStores)

NextOne ==
  \/ StartAccount("default", 1)
  \/ \E e \in Entries : Receive(e, expectedMethod(e), "default", 1)
  \/ \E r \in 1..Len(reqs) : BodyEnd(r, WideEvents, WideFunctionRequests)
  \/ \E r \in 1..Len(reqs) : StoreReadReturns(r)
  \/ \E r \in 1..Len(reqs) : UpsertReturns(r)
  \/ \E r \in 1..Len(reqs) : PairSendReturns(r)
  \/ \E r \in 1..Len(reqs) : TaskThrows(r)
  \/ \E r \in 1..Len(reqs) : \E t \in CorePayloads : Deliver(r, t)
  \/ \E r \in 1..Len(reqs) : \E ok \in BOOLEAN : DeliverSendReturns(r, ok)
  \/ \E r \in 1..Len(reqs) : DeliverSendThrows(r)
  \/ \E r \in 1..Len(reqs) : PipelineReturns(r)
  \/ \E r \in 1..Len(reqs) : PipelineThrows(r)

SpecOne == InitOne /\ [][NextOne]_vars

\* The pairing race alone: one run of the account, up to MaxRequests
\* concurrent callbacks of two senders under the pairing policy, duplicate
\* deliveries included.
PairConfigs ==
  {Config(Account(policy, allow, <<>>)) :
     policy \in {None, "pairing"}, allow \in {{}, {"u2"}}}

PairEvents ==
  {WebhookEvent("push", "Message", Entity("c1", ct, "user", pid, TextHi, FALSE, <<>>), NoRefs) :
     ct \in {"group", "userChat"}, pid \in {"u1", "u2"}}

PairFunctionRequests ==
  {FunctionRequest(None, "c2", None, "userChat", Undef, TextHi, "user", caller) :
     caller \in {"u1", "u2"}}

InitPair == InitWith(PairConfigs, {{}})

NextPair ==
  \/ StartAccount("default", 1)
  \/ \E e \in Entries : Receive(e, expectedMethod(e), "default", MaxRequests)
  \/ \E r \in 1..Len(reqs) : BodyEnd(r, PairEvents, PairFunctionRequests)
  \/ \E r \in 1..Len(reqs) : StoreReadReturns(r)
  \/ \E r \in 1..Len(reqs) : UpsertReturns(r)
  \/ \E r \in 1..Len(reqs) : PairSendReturns(r)
  \/ \E r \in 1..Len(reqs) : TaskThrows(r)
  \/ \E r \in 1..Len(reqs) : PipelineReturns(r)

SpecPair == InitPair /\ [][NextPair]_vars

\* The registries' life cycle alone: up to MaxRuns runs of two accounts, started
\* and aborted in any order, and up to MaxRequests callbacks on both entry
\* points, under the open policy.
LifeConfigs == {Config(Account("open", {}, <<>>))}

LifeEvents ==
  {WebhookEvent("push", "Message", Entity("c1", "userChat", "user", "u1", TextHi, FALSE, <<>>),
                NoRefs)}

LifeFunctionRequests ==
  {FunctionRequest(None, "c2", None, "userChat", Undef, TextHi, "user", "u1")}

InitLife == InitWith(LifeConfigs, {{}})

NextLife ==
  \/ \E a \in AccountIds : StartAccount(a, MaxRuns)
  \/ \E i \in 1..Len(runs) : Abort(i)
  \/ \E e \in Entries, m \in Methods, a \in AccountIds : Receive(e, m, a, MaxRequests)
  \/ \E r \in 1..Len(reqs) : BodyEnd(r, LifeEvents, LifeFunctionRequests)
  \/ \E r \in 1..Len(reqs) : PipelineReturns(r)

SpecLife == InitLife /\ [][NextLife]_vars

\* The body reader alone: one run, one request on either entry point, its body
\* arriving in up to MaxDataEvents chunks whose sizes sit around the cap.
ChunkLens == {1, 2, maxBytes - 2, maxBytes - 1, maxBytes, maxBytes + 1}

InitBody == InitWith(LifeConfigs, {{}})

NextBody ==
  \/ StartAccount("default", 1)
  \/ \E e \in Entries : Receive(e, expectedMethod(e), "default", 1)
  \/ \E r \in 1..Len(reqs) : \E len \in ChunkLens : DataEvent(r, len)
  \/ \E r \in 1..Len(reqs) : \E len \in ChunkLens : LateDataEvent(r, len)
  \/ \E r \in 1..Len(reqs) : StreamEnd(r, LifeEvents, LifeFunctionRequests)
  \/ \E r \in 1..Len(reqs) : PipelineReturns(r)

SpecBody == InitBody /\ [][NextBody]_vars

\* The two normalizers alone: one run, one request on either entry point under
\* the open policy, with every field the function normalizer and the sender
\* resolution read present, empty or absent.
NormFunctionRequests ==
  {FunctionRequest(nid, cid, nty, "userChat", msg, val, ctype, caller) :
     nid \in {"G1", "", None}, cid \in {"G2", "", None}, nty \in {"group", None},
     msg \in {TextHi, <<" ">>, <<>>, Undef}, val \in {TextAi, <<" ">>, Undef},
     ctype \in {"user", "manager", "bot", "admin", None}, caller \in {"u1", None}}

NormRefers ==
  {Refers(chat, user, manager) :
     chat \in {NoRef, RefChat("c2", "Chat"), RefChat("c2", None)},
     user \in {NoRef} \cup {RefUser(id, name, profile) :
                id \in {"U1", None}, name \in {"Bob", None}, profile \in {"Bobby", None}},
     manager \in {NoRef} \cup {RefManager(id, name) :
                id \in {"M1", None}, name \in {"Alice", None}}}

NormEvents ==
  {WebhookEvent("push", "Message", Entity("c1", "group", pt, pid, TextHi, FALSE, <<>>), rf) :
     pt \in {"user", "manager", None}, pid \in {"A1", None}, rf \in NormRefers}

InitNorm == InitWith(LifeConfigs, {{}})

NextNorm ==
  \/ StartAccount("default", 1)
  \/ \E e \in Entries : Receive(e, expectedMethod(e), "default", 1)
  \/ \E r \in 1..Len(reqs) : BodyEnd(r, NormEvents, NormFunctionRequests)
  \/ \E r \in 1..Len(reqs) : PipelineReturns(r)

SpecNorm == InitNorm /\ [][NextNorm]_vars

\* The delivery callback alone: one run, one request under the open policy,
\* and up to MaxChunks reply payloads whose text is a word, a padded word,
\* blank, empty or absent.
DeliverEvents ==
  {WebhookEvent("push", "Message", Entity("c1", ct, "user", "u1", TextHi, FALSE, <<>>), NoRefs) :
     ct \in {"group", "userChat"}}

DeliverPayloads == {TextHi, <<" ", "a">>, <<" ">>, <<>>, Undef}

InitDeliver == InitWith(LifeConfigs, {{}})

NextDeliver ==
  \/ StartAccount("default", 1)
  \/ \E e \in Entries : Receive(e, expectedMethod(e), "default", 1)
  \/ \E r \in 1..Len(reqs) : BodyEnd(r, DeliverEvents, LifeFunctionRequests)
  \/ \E r \in 1..Len(reqs) : \E t \in DeliverPayloads : Deliver(r, t)
  \/ \E r \in 1..Len(reqs) : \E ok \in BOOLEAN : DeliverSendReturns(r, ok)
  \/ \E r \in 1..Len(reqs) : DeliverSendThrows(r)
  \/ \E r \in 1..Len(reqs) : PipelineReturns(r)
  \/ \E r \in 1..Len(reqs) : PipelineThrows(r)

SpecDeliver == InitDeliver /\ [][NextDeliver]_vars

\* Event processing against the registries' life cycle: up to MaxRuns runs of
\* the account, started and aborted at any moment, and up to MaxRequests
\* concurrent callbacks under the pairing policy whose events are filtered
\* out, answered with a pairing prompt (sent or failing), or dispatched to a
\* pipeline that returns or throws without delivering a reply.
FrameConfigs == {Config(Account("pairing", {"u2"}, <<>>))}

FrameEvents ==
  {WebhookEvent("push", "Message", Entity("c1", "userChat", pt, pid, TextHi, FALSE, <<>>),
                NoRefs) :
     pt \in {"user"}, pid \in {"u1", "u2"}}
  \cup {WebhookEvent("push", "Message",
                     Entity("c1", "userChat", "bot", "u2", TextHi, FALSE, <<>>), NoRefs)}

InitFrame == InitWith(FrameConfigs, {{}})

NextFrame ==
  \/ StartAccount("default", MaxRuns)
  \/ \E i \in 1..Len(runs) : Abort(i)
  \/ \E e \in Entries : Receive(e, expectedMethod(e), "default", MaxRequests)
  \/ \E r \in 1..Len(reqs) : BodyEnd(r, FrameEvents, LifeFunctionRequests)
  \/ \E r \in 1..Len(reqs) : StoreReadReturns(r)
  \/ \E r \in 1..Len(reqs) : UpsertReturns(r)
  \/ \E r \in 1..Len(reqs) : PairSendReturns(r)
  \/ \E r \in 1..Len(reqs) : TaskThrows(r)
  \/ \E r \in 1..Len(reqs) : RouteThrows(r)
  \/ \E r \in 1..Len(reqs) : PipelineReturns(r)
  \/ \E r \in 1..Len(reqs) : PipelineThrows(r)

SpecFrame == InitFrame /\ [][NextFrame]_vars

\* The health probe alone: up to MaxCalls probes of the configured and of the
\* unconfigured account, with and without a timeout given, whose platform
\* call answers ok, answers not ok, rejects, or is still pending when the
\* timer fires.
ProbeTimeouts == {NoTimeoutMs, TimeoutMs(1000)}
ProbeOutcomes == {"ok", "error", "thrown"}

InitProbe == InitWith(LifeConfigs, {{}})

NextProbe ==
  \/ \E a \in AccountIds, t \in ProbeTimeouts : ProbeAccount(a, t, MaxCalls)
  \/ \E c \in 1..Len(calls) : ProbeTimerFires(c)
  \/ \E c \in 1..Len(calls) : \E o \in ProbeOutcomes : ProbeEnds(c, o)

SpecProbe == InitProbe /\ [][NextProbe]_vars

\* Group chats alone: one run of an account under the open policy whose
\* group allow list is empty or names the group g1, with or without a trigger
\* keyword, and one request from the groups g1 and g2 or from a user chat
\* whose text holds the keyword or not.
GroupAccount(groupAllowFrom, triggerKeywords) ==
  [Account("open", {}, triggerKeywords) EXCEPT !.groupAllowFrom = groupAllowFrom]

GroupConfigs ==
  {Config(GroupAccount(groups, kws)) : groups \in {{}, {"g1"}}, kws \in {<<>>, <<KwAi>>}}

GroupEvents ==
  {WebhookEvent("push", "Message", Entity(cid, ct, "manager", "u1", txt, FALSE, <<>>), NoRefs) :
     cid \in {"g1", "g2"}, ct \in {"group", "userChat"}, txt \in {TextAi, TextHi}}

GroupFunctionRequests ==
  {FunctionRequest(None, cid, None, "group", Undef, txt, "manager", "u1") :
     cid \in {"g1", "g2"}, txt \in {TextAi, TextHi}}

InitGroup == InitWith(GroupConfigs, {{}})

NextGroup ==
  \/ StartAccount("default", 1)
  \/ \E e \in Entries : Receive(e, expectedMethod(e), "default", 1)
  \/ \E r \in 1..Len(reqs) : BodyEnd(r, GroupEvents, GroupFunctionRequests)
  \/ \E r \in 1..Len(reqs) : PipelineReturns(r)
  \/ \E r \in 1..Len(reqs) : PipelineThrows(r)

SpecGroup == InitGroup /\ [][NextGroup]_vars

\* Outbound sends alone: up to MaxCalls sendText calls for the configured and
\* the unconfigured account, to a group by name, by number and with the group:
\* prefix, and to a user chat, with the channel prefix in either case or
\* without it.
OutboundNames ==
  {<<"@", "a", "i">>, <<"5", "4">>, GroupPrefix \o <<"5", "4">>, <<"a", "4", "b">>}

OutboundTargets ==
  {prefix \o name :
     prefix \in {ChannelPrefix, [ChannelPrefix EXCEPT ![3] = "A"], <<>>},
     name \in OutboundNames}

InitOutbound == InitWith(LifeConfigs, {{}})

NextOutbound ==
  \/ \E a \in AccountIds, to \in OutboundTargets : SendText(a, to, TextHi, MaxCalls)
  \/ \E c \in 1..Len(calls) : \E o \in ProbeOutcomes : SendTextEnds(c, o)

SpecOutbound == InitOutbound /\ [][NextOutbound]_vars

\* Block conversion alone: one sendText call of the configured account whose
\* text is any string of up to MaxMarkdownLen letters, spaces, newlines,
\* backquotes and angle brackets.
MarkdownChars == {"a", " ", "\n", BQ, "<", ">"}
MarkdownTexts == UNION {[1..n -> MarkdownChars] : n \in 0..MaxMarkdownLen}

InitBlocks == InitWith(LifeConfigs, {{}})

NextBlocks ==
  \/ \E text \in MarkdownTexts : SendText("default", ChannelPrefix \o <<"a", "4", "b">>, text, 1)
  \/ \E c \in 1..Len(calls) : \E o \in ProbeOutcomes : SendTextEnds(c, o)

SpecBlocks == InitBlocks /\ [][NextBlocks]_vars

\* The referenced section against the access check: one run of the account
\* under the pairing policy with u2 on its allow list, and up to MaxRequests
\* webhook events of a user or a manager, with or without a person id, whose
\* referenced user and manager are absent or are u1 or u2.
RefersConfigs == {Config(Account("pairing", {"u2"}, <<>>))}

RefersChoices ==
  {Refers(NoRef, user, manager) :
     user \in {NoRef, RefUser("u1", "Ann", None), RefUser("u2", "Bob", None)},
     manager \in {NoRef, RefManager("u2", "Alice")}}

RefersEvents ==
  {WebhookEvent("push", "Message", Entity("c1", "userChat", pt, pid, TextHi, FALSE, <<>>), rf) :
     pt \in {"user", "manager"}, pid \in {"u1", None}, rf \in RefersChoices}

InitRefers == InitWith(RefersConfigs, {{}})

NextRefers ==
  \/ StartAccount("default", 1)
  \/ Receive("webhook", "POST", "default", MaxRequests)
  \/ \E r \in 1..Len(reqs) : BodyEnd(r, RefersEvents, LifeFunctionRequests)
  \/ \E r \in 1..Len(reqs) : StoreReadReturns(r)
  \/ \E r \in 1..Len(reqs) : UpsertReturns(r)
  \/ \E r \in 1..Len(reqs) : PairSendReturns(r)
  \/ \E r \in 1..Len(reqs) : PipelineReturns(r)

SpecRefers == InitRefers /\ [][NextRefers]_vars

\* The message text alone: one run under the open policy without trigger
\* keywords, and one webhook event whose plainText is absent, empty, blank, a
\* word or a padded word and whose block list is absent, empty or holds a
\* text, a blank text, a code block or a list of bullets.
EventBlock(type, value) == [type |-> type, value |-> value, hasBlocks |-> FALSE, blocks |-> <<>>]
BulletsBlock(values) == [type |-> "bullets", value |-> Undef, hasBlocks |-> TRUE, blocks |-> values]

TextBlockLists ==
  {<<>>, <<EventBlock("text", TextHi)>>, <<EventBlock("text", <<" ">>)>>,
   <<EventBlock("code", TextAi)>>, <<BulletsBlock(<<TextHi, <<>>, TextAi>>)>>,
   <<EventBlock("text", <<"<", "b", ">", "h", "i">>), EventBlock("text", Undef)>>}

TextEntities ==
  {Entity("c1", ct, "user", "u1", plain, FALSE, <<>>) :
     ct \in {"group", "userChat"}, plain \in {Undef, <<>>, <<" ">>, TextHi, <<" ", "a">>}}
  \cup {Entity("c1", ct, "user", "u1", plain, TRUE, blocks) :
          ct \in {"group", "userChat"}, plain \in {Undef, <<>>, <<" ">>, TextHi, <<" ", "a">>},
          blocks \in TextBlockLists}

TextEvents == {WebhookEvent("push", "Message", en, NoRefs) : en \in TextEntities}

InitText == InitWith(LifeConfigs, {{}})

NextText ==
  \/ StartAccount("default", 1)
  \/ Receive("webhook", "POST", "default", 1)
  \/ \E r \in 1..Len(reqs) : BodyEnd(r, TextEvents, LifeFunctionRequests)
  \/ \E r \in 1..Len(reqs) : PipelineReturns(r)

SpecText == InitText /\ [][NextText]_vars

\* The chat id alone: one run under the pairing policy and one request on
\* either entry point; the event's chat id and its referenced chat's id are
\* each a value, empty or absent, and so are the function request's nested
\* and flat chat ids.
ChatRefers ==
  {NoRefs} \cup {Refers(RefChat(id, "Chat"), NoRef, NoRef) : id \in {"c2", "", None}}

ChatEvents ==
  {WebhookEvent(ev, "Message", Entity(cid, ct, "user", pid, TextHi, FALSE, <<>>), rf) :
     ev \in {"push"}, cid \in {"c1", "", None}, ct \in {"group", "userChat"},
     pid \in {"u1", "u2"}, rf \in ChatRefers}

ChatFunctionRequests ==
  {FunctionRequest(nid, cid, None, "userChat", Undef, val, "user", caller) :
     nid \in {"G1", "", None}, cid \in {"G2", "", None}, val \in {TextHi, <<" ">>},
     caller \in {"u1", "u2"}}

InitChat == InitWith(FrameConfigs, {{}})

NextChat ==
  \/ StartAccount("default", 1)
  \/ \E e \in Entries : Receive(e, expectedMethod(e), "default", 1)
  \/ \E r \in 1..Len(reqs) : BodyEnd(r, ChatEvents, ChatFunctionRequests)
  \/ \E r \in 1..Len(reqs) : StoreReadReturns(r)
  \/ \E r \in 1..Len(reqs) : UpsertReturns(r)
  \/ \E r \in 1..Len(reqs) : PairSendReturns(r)
  \/ \E r \in 1..Len(reqs) : PipelineReturns(r)

SpecChat == InitChat /\ [][NextChat]_vars

\* Senders without an id: one run under the pairing policy whose configured
\* allow list is empty or names the sender unknown, and up to MaxRequests
\* callbacks whose events carry an author id, only a referenced user id, an
\* empty author id, or no id at all (from two chats, and from a manager whose
\* reference has no id); commands with and without a caller id.
AnonConfigs == {Config(Account("pairing", allow, <<>>)) : allow \in {{}, {"unknown"}}}

AnonEvents ==
  {WebhookEvent("push", "Message", Entity(cid, "userChat", "user", None, TextHi, FALSE, <<>>),
                NoRefs) : cid \in {"c1", "c2"}}
  \cup {WebhookEvent("push", "Message",
                     Entity("c1", "group", "manager", None, TextHi, FALSE, <<>>),
                     Refers(NoRef, NoRef, RefManager(None, "M"))),
        WebhookEvent("push", "Message",
                     Entity("c1", "userChat", "user", None, TextHi, FALSE, <<>>),
                     Refers(NoRef, RefUser("u2", None, None), NoRef)),
        WebhookEvent("push", "Message",
                     Entity("c1", "userChat", "user", "u1", TextHi, FALSE, <<>>), NoRefs),
        WebhookEvent("push", "Message",
                     Entity("c1", "userChat", "user", "", TextHi, FALSE, <<>>), NoRefs)}

AnonFunctionRequests ==
  {FunctionRequest(None, "c2", None, "userChat", Undef, TextHi, ctype, caller) :
     ctype \in {None, "manager"}, caller \in {None, "u1"}}

InitAnon == InitWith(AnonConfigs, {{}})

NextAnon ==
  \/ StartAccount("default", 1)
  \/ \E e \in Entries : Receive(e, expectedMethod(e), "default", MaxRequests)
  \/ \E r \in 1..Len(reqs) : BodyEnd(r, AnonEvents, AnonFunctionRequests)
  \/ \E r \in 1..Len(reqs) : StoreReadReturns(r)
  \/ \E r \in 1..Len(reqs) : UpsertReturns(r)
  \/ \E r \in 1..Len(reqs) : PairSendReturns(r)
  \/ \E r \in 1..Len(reqs) : PipelineReturns(r)

SpecAnon == InitAnon /\ [][NextAnon]_vars

\* ------------------------------------------------ what the claims speak of

ReqIds == 1..Len(reqs)

\* The calls a request's handling made, in order, by name.
OpsOf(req) == {req.log[i].op : i \in 1..Len(req.log)}

\* Pairing-store calls, outbound sends and agent-pipeline invocations.
BusinessOps == {"readAllowFromStore", "upsertPairingRequest", "send", "pipeline"}

SendsOf(req) == {i \in 1..Len(req.log) : req.log[i].op = "send"}

\* The request's body was parsed and an event was handed to processWebhookEvent.
HasEvent(req) ==
  req.body.kind = "json" /\ (req.entry = "webhook" \/ fnResult(req.body.data) = "ok")

EventOf(req) ==
  IF req.entry = "webhook" THEN req.body.data ELSE fnWebhookEvent(req.body.data)

\* The access policy in force for the request's account.
PolicyOf(req) == Coalesce(cfg[req.accountId].dmPolicy, "pairing")

\* C1: an event whose author kind is bot, from either entry point and
\* whatever its other fields, causes no pairing-store call, no outbound send
\* and no agent-pipeline invocation.
AuthorIsBot(req) ==
  /\ req.body.kind = "json"
  /\ IF req.entry = "webhook"
     THEN req.body.data.entity.present /\ req.body.data.entity.personType = "bot"
     ELSE Coalesce(req.body.data.callerType, "user") = "bot"

C1_BotEventHasNoEffect ==
  \A r \in ReqIds :
    AuthorIsBot(reqs[r]) =>
      /\ OpsOf(reqs[r]) \cap BusinessOps = {}
      /\ pending = EmptyMap

\* A bot-authored webhook message that any other author would have got through
\* the filter with, acknowledged and returned.
C1_Witness ==
  \E r \in ReqIds :
    /\ reqs[r].entry = "webhook" /\ AuthorIsBot(reqs[r])
    /\ passesFilter([reqs[r].body.data EXCEPT !.entity.personType = "user"], reqs[r].target)
    /\ reqs[r].body.data.entity.chatType = "userChat"
    /\ reqs[r].status = 200 /\ reqs[r].pc = "returned"

\* C3: under the pairing policy (the default when dmPolicy is unset), for
\* group and direct chats alike, an event that passed the filter is handed to
\* the agent pipeline iff its sender id is in the configured allow list or the
\* store's allow list, or one of the two lists holds "*".
InAllowLists(senderId, accountId) ==
  \/ senderId \in cfg[accountId].allowFrom \/ senderId \in storeAllowFrom
  \/ "*" \in cfg[accountId].allowFrom \/ "*" \in storeAllowFrom

\* The task of the request got the store's allow list back.
StoreWasRead(req) ==
  /\ "readAllowFromStore" \in OpsOf(req)
  /\ req.pc # "readStore"
  /\ ~(req.pc = "failed" /\ req.log[Len(req.log)].op = "readAllowFromStore")

C3_PairingAllowListDecides ==
  \A r \in ReqIds :
    (HasEvent(reqs[r]) /\ PolicyOf(reqs[r]) = "pairing") =>
      /\ "pipeline" \in OpsOf(reqs[r])
           => InAllowLists(senderIdOf(EventOf(reqs[r])), reqs[r].accountId)
      /\ (StoreWasRead(reqs[r])
            /\ InAllowLists(senderIdOf(EventOf(reqs[r])), reqs[r].accountId))
           => "pipeline" \in OpsOf(reqs[r])

\* A group-chat event under the unset (default) policy whose sender only the
\* store's list allows reached the pipeline.
C3_Witness ==
  \E r \in ReqIds :
    /\ HasEvent(reqs[r]) /\ cfg[reqs[r].accountId].dmPolicy = None
    /\ "pipeline" \in OpsOf(reqs[r])
    /\ EventOf(reqs[r]).entity.chatType = "group"
    /\ senderIdOf(EventOf(reqs[r])) \in storeAllowFrom
    /\ cfg[reqs[r].accountId].allowFrom = {}

\* C4: for an event from an unpaired sender under the pairing policy, a
\* created=true answer of upsertPairingRequest is followed by exactly one
\* outbound send, to the originating chat and carrying the issued code; a
\* created=false answer by no send; the agent pipeline is invoked in neither case.
Unpaired(req) ==
  /\ HasEvent(req) /\ PolicyOf(req) = "pairing" /\ StoreWasRead(req)
  /\ ~InAllowLists(senderIdOf(EventOf(req)), req.accountId)

PromptMatches(req, e) ==
  /\ e.chatId = chatIdOf(EventOf(req))
  /\ e.chatType = (IF EventOf(req).entity.chatType = "group" THEN "group" ELSE "userChat")
  /\ e.code = req.code
  /\ e.code = pending[senderIdOf(EventOf(req))]

C4_PairingPromptOnlyWhenCreated ==
  \A r \in ReqIds :
    Unpaired(reqs[r]) =>
      /\ "pipeline" \notin OpsOf(reqs[r])
      /\ (reqs[r].code # 0 /\ reqs[r].created) =>
           /\ Cardinality(SendsOf(reqs[r])) = 1
           /\ \A i \in SendsOf(reqs[r]) : PromptMatches(reqs[r], reqs[r].log[i])
      /\ ~reqs[r].created => SendsOf(reqs[r]) = {}

\* Two finished events of one unpaired sender: the first was answered
\* created=true and sent its prompt, the second created=false and sent nothing.
C4_Witness ==
  \E r1, r2 \in ReqIds :
    /\ Unpaired(reqs[r1]) /\ Unpaired(reqs[r2])
    /\ reqs[r1].pc = "done" /\ reqs[r2].pc = "done"
    /\ reqs[r1].created /\ Cardinality(SendsOf(reqs[r1])) = 1
    /\ reqs[r2].code # 0 /\ ~reqs[r2].created /\ SendsOf(reqs[r2]) = {}

\* C5: whatever the interleaving of the tasks that handle events of one
\* unpaired sender (duplicate deliveries included), at most one pairing prompt
\* is sent for the sender in total and every task gets the same code.
PairingPrompts(senderId) ==
  UNION {{<<r, i>> : i \in {j \in SendsOf(reqs[r]) :
                                /\ reqs[r].log[j].code # 0
                                /\ reqs[r].log[j].senderId = senderId}} :
         r \in ReqIds}

C5_OnePromptPerSender ==
  /\ \A r \in ReqIds : Cardinality(PairingPrompts(reqs[r].loc.senderId)) <= 1
  /\ \A r1, r2 \in ReqIds :
       (reqs[r1].code # 0 /\ reqs[r2].code # 0
          /\ reqs[r1].loc.senderId = reqs[r2].loc.senderId)
         => reqs[r1].code = reqs[r2].code

\* A duplicate delivery got its code, created=false, while the first
\* delivery's prompt was still being sent.
C5_Witness ==
  \E r1, r2 \in ReqIds :
    /\ r1 # r2 /\ reqs[r1].body = reqs[r2].body /\ reqs[r1].entry = reqs[r2].entry
    /\ reqs[r1].pc = "pairSend" /\ reqs[r1].created
    /\ reqs[r2].pc = "done" /\ ~reqs[r2].created
    /\ reqs[r2].code = reqs[r1].code /\ reqs[r1].code # 0
    /\ Cardinality(PairingPrompts(reqs[r1].loc.senderId)) = 1

\* C6: under the disabled policy every event is dropped without a pairing
\* request, a send or an agent-pipeline invocation, whatever the configured
\* allow list holds.
C6_DisabledDeniesAll ==
  \A r \in ReqIds :
    PolicyOf(reqs[r]) = "disabled" => OpsOf(reqs[r]) \cap BusinessOps = {}

\* C7: under the allowlist policy an event reaches the agent pipeline iff its
\* sender id is in the configured allow list or the list holds "*"; any other
\* event is dropped without a reply.
InConfiguredList(senderId, accountId) ==
  senderId \in cfg[accountId].allowFrom \/ "*" \in cfg[accountId].allowFrom

C7_AllowlistDecides ==
  \A r \in ReqIds :
    (HasEvent(reqs[r]) /\ PolicyOf(reqs[r]) = "allowlist") =>
      /\ "pipeline" \in OpsOf(reqs[r])
           => InConfiguredList(senderIdOf(EventOf(reqs[r])), reqs[r].accountId)
      /\ (reqs[r].pc # "returned"
            /\ InConfiguredList(senderIdOf(EventOf(reqs[r])), reqs[r].accountId))
           => "pipeline" \in OpsOf(reqs[r])
      /\ "pipeline" \notin OpsOf(reqs[r]) => OpsOf(reqs[r]) \cap BusinessOps = {}

\* C8: on both entry points the 200 acknowledgment of an accepted callback is
\* written before any pairing-store call, send or pipeline invocation made for
\* it, and it stands whatever the outcome of the processing.
C8_AckBeforeBusinessLogic ==
  \A r \in ReqIds :
    IF reqs[r].pc \in {"reading", "closed"}
    THEN reqs[r].log = <<>> /\ reqs[r].status # 200
    ELSE /\ reqs[r].status = 200
         /\ reqs[r].log # <<>> /\ reqs[r].log[1] = Ack
         /\ \A i \in 2..Len(reqs[r].log) : reqs[r].log[i].op \in BusinessOps

\* A function callback whose task failed after the pipeline's reply was sent
\* stays answered 200.
C8_Witness ==
  \E r \in ReqIds :
    /\ reqs[r].entry = "function" /\ reqs[r].pc = "failed"
    /\ "pipeline" \in OpsOf(reqs[r]) /\ "send" \in OpsOf(reqs[r])
    /\ reqs[r].status = 200 /\ reqs[r].log[1] = Ack

\* C9: a function request that is malformed (invalid JSON, no chat id, or user
\* input empty after trimming) is answered 400 and starts no processing.
NoId(id) == id = None \/ id = ""
Blank(text) == \A i \in 1..Len(text) : text[i] = " "

ChosenInput(data) ==
  IF data.inputMessage # Undef /\ data.inputMessage # <<>> THEN data.inputMessage
  ELSE IF data.value # Undef /\ data.value # <<>> THEN data.value
  ELSE <<>>

Malformed(body) ==
  \/ body.kind = "invalid_json"
  \/ /\ body.kind = "json"
     /\ \/ NoId(body.data.chatNestedId) /\ NoId(body.data.chatId)
        \/ Blank(ChosenInput(body.data))

C9_MalformedFunctionRequestGets400 ==
  \A r \in ReqIds :
    (reqs[r].entry = "function" /\ Malformed(reqs[r].body)) =>
      /\ reqs[r].status = 400
      /\ OpsOf(reqs[r]) \cap BusinessOps = {}

\* C10: a callback for an account id that is not in the entry point's registry
\* when it arrives is answered 404, and nothing is ever done for it.
C10_UnknownAccountGets404 ==
  [][/\ Len(reqs') = Len(reqs) + 1 =>
          LET q == reqs'[Len(reqs')] IN
            (q.method = (IF q.entry = "webhook" THEN "POST" ELSE "PUT")
               /\ q.accountId \notin DOMAIN (IF q.entry = "webhook"
                                             THEN webhookTargets ELSE functionTargets))
              => q.status = 404
     /\ \A r \in 1..Len(reqs') :
          reqs'[r].status = 404 => reqs'[r].pc = "closed" /\ reqs'[r].log = <<>>]_vars

\* After every run has stopped, a callback for the account that was served
\* before is answered 404; so is one for the account that was started
\* without credentials.
C10_Witness ==
  \E r1, r2 \in ReqIds :
    /\ r1 < r2 /\ reqs[r1].accountId = reqs[r2].accountId
    /\ reqs[r1].entry = reqs[r2].entry
    /\ reqs[r1].status = 200 /\ reqs[r2].status = 404 /\ reqs[r2].log = <<>>
    /\ \E i \in 1..Len(runs) :
         runs[i].accountId = reqs[r2].accountId /\ runs[i].state = "stopped"
    /\ \A i \in 1..Len(runs) : runs[i].state # "active"

\* ------------------------------------------------ the message filter alone

\* Texts of up to MaxTextLen characters over a small alphabet, trigger keywords
\* in both cases, one request.
MaxTextLen == 2
Alphabet == {"a", "A", "i", " "}
Texts == UNION {[1..n -> Alphabet] : n \in 0..MaxTextLen}

NamedAccount(botName) ==
  [Account("open", {}, UndefList) EXCEPT !.botName = botName]

FilterConfigs ==
  {Config(Account("open", {}, kws)) :
     kws \in {<<>>, <<KwAi>>, << <<"i", "i">>, <<"A">> >>, << <<"a", " ">> >>, << <<>> >>}}
  \cup {Config(NamedAccount(KwAi))}

FilterEvents ==
  {WebhookEvent("push", "Message", Entity("c1", ct, "user", "u1", txt, FALSE, <<>>), NoRefs) :
     ct \in {"group", "userChat", "directChat", None}, txt \in Texts}

FilterFunctionRequests ==
  {FunctionRequest(None, "c1", None, ct, Undef, txt, "user", "u1") :
     ct \in {"group", "userChat"}, txt \in Texts}

InitFilter == InitWith(FilterConfigs, {{}})

NextFilter ==
  \/ StartAccount("default", 1)
  \/ \E e \in Entries : Receive(e, expectedMethod(e), "default", 1)
  \/ \E r \in 1..Len(reqs) : BodyEnd(r, FilterEvents, FilterFunctionRequests)
  \/ \E r \in 1..Len(reqs) : PipelineReturns(r)

SpecFilter == InitFilter /\ [][NextFilter]_vars

\* C2: a message whose chat type is not "group" and whose text is not blank
\* passes the filter whatever the trigger keywords are; a group-chat message
\* passes iff there is no trigger keyword or its lower-cased text contains a
\* lower-cased keyword.  The text is the trimmed text of the message.
Lowered(c) == IF c = "A" THEN "a" ELSE IF c = "I" THEN "i" ELSE IF c = "B" THEN "b" ELSE c

ContainsFolded(text, kw) ==
  \E k \in 0..Len(text) :
    /\ k + Len(kw) <= Len(text)
    /\ \A j \in 1..Len(kw) : Lowered(text[k + j]) = Lowered(kw[j])

Trimmed(text) ==
  LET inked == {i \in 1..Len(text) : text[i] # " "} IN
    IF inked = {} THEN <<>>
    ELSE SubSeq(text, CHOOSE i \in inked : \A j \in inked : i <= j,
                      CHOOSE i \in inked : \A j \in inked : i >= j)

PassedFilter(req) == req.pc # "returned"

C2_KeywordGateIsGroupOnly ==
  \A r \in ReqIds :
    (HasEvent(reqs[r]) /\ Trimmed(EventOf(reqs[r]).entity.plainText) # <<>>) =>
      LET text == Trimmed(EventOf(reqs[r]).entity.plainText)
          kws == reqs[r].target.triggerKeywords
      IN IF EventOf(reqs[r]).entity.chatType = "group"
         THEN PassedFilter(reqs[r]) <=>
                (kws = <<>> \/ \E k \in 1..Len(kws) : ContainsFolded(text, kws[k]))
         ELSE PassedFilter(reqs[r])

\* A direct-chat message that holds none of the account's trigger keywords
\* reached the agent pipeline.
C2_Witness ==
  \E r \in ReqIds :
    /\ reqs[r].entry = "webhook" /\ HasEvent(reqs[r])
    /\ EventOf(reqs[r]).entity.chatType = "userChat"
    /\ reqs[r].target.triggerKeywords = <<KwAi>>
    /\ EventOf(reqs[r]).entity.plainText = <<"a", " ">>
    /\ "pipeline" \in OpsOf(reqs[r])

\* C11: on both entry points a body is answered 413 iff the bytes counted
\* exceed 5 MiB; a body of exactly 5 MiB is accepted; once the cap is exceeded
\* no further chunk is buffered and no processing starts for the request.
C11_Cap ==
  \A r \in ReqIds :
    /\ reqs[r].status = 413 <=> reqs[r].totalBytes > 5242880
    /\ reqs[r].buffered <= 5242880
    /\ reqs[r].totalBytes <= 5242880 => reqs[r].buffered = reqs[r].totalBytes
    /\ reqs[r].status = 413 => reqs[r].pc = "closed" /\ reqs[r].log = <<>>

C11_BodyCapIsFiveMiB ==
  /\ []C11_Cap
  /\ [][\A r \in 1..Len(reqs) :
          reqs[r].totalBytes > 5242880 =>
            /\ reqs'[r].buffered = reqs[r].buffered
            /\ reqs'[r].pc = "closed" /\ reqs'[r].log = <<>>]_vars

\* A body of exactly 5 MiB that came in two chunks was accepted and its event
\* dispatched.
C11_Witness ==
  \E r \in ReqIds :
    /\ reqs[r].totalBytes = 5242880 /\ reqs[r].dataEvents = 2
    /\ reqs[r].status = 200 /\ "pipeline" \in OpsOf(reqs[r])

\* C12: only push events that carry a Message are processed further: a webhook
\* event of another kind (update, upsert), even of type Message, causes no
\* pairing-store call, no send and no agent-pipeline invocation.
C12_OnlyPushIsProcessed ==
  \A r \in ReqIds :
    (reqs[r].entry = "webhook" /\ reqs[r].body.kind = "json"
       /\ reqs[r].body.data.event # "push")
      => OpsOf(reqs[r]) \cap BusinessOps = {}

\* C13: in the function normalizer the nested chat id and text win over the
\* flat ones whenever they are present and not empty, otherwise the flat ones
\* are used; the result is the missing-chat-id failure when no chat id is
\* left, and the missing-input failure when the chosen text is blank.
ChosenId(data) ==
  IF ~NoId(data.chatNestedId) THEN data.chatNestedId ELSE data.chatId

C13_NestedFieldsWin ==
  \A r \in ReqIds :
    (reqs[r].entry = "function" /\ reqs[r].body.kind = "json") =>
      LET data == reqs[r].body.data IN
        /\ reqs[r].result = "Missing chatId in params" <=> NoId(ChosenId(data))
        /\ reqs[r].result = "Missing user input"
             <=> (~NoId(ChosenId(data)) /\ Trimmed(ChosenInput(data)) = <<>>)
        /\ reqs[r].result # "ok" => reqs[r].pc = "returned" /\ reqs[r].loc = NoLocals
        /\ reqs[r].loc # NoLocals =>
             /\ reqs[r].loc.chatId = ChosenId(data)
             /\ reqs[r].loc.rawBody = Trimmed(ChosenInput(data))

\* Nested G1 won over flat G2 and the nested message over the flat value; and
\* the event reached the pipeline.
C13_Witness ==
  \E r \in ReqIds :
    /\ reqs[r].entry = "function" /\ reqs[r].body.kind = "json"
    /\ reqs[r].body.data.chatNestedId = "G1" /\ reqs[r].body.data.chatId = "G2"
    /\ reqs[r].body.data.inputMessage = TextHi /\ reqs[r].body.data.value = TextAi
    /\ reqs[r].loc.chatId = "G1" /\ reqs[r].loc.rawBody = TextHi
    /\ "pipeline" \in OpsOf(reqs[r])

\* C14: the function normalizer makes caller kind "manager" a team-member
\* author and any other caller kind, absent or unrecognised ones included, a
\* customer author, and the synthesized event has exactly one of the
\* referenced-manager and referenced-customer slots, the one of that kind.
C14_CallerKindMapping ==
  \A r \in ReqIds :
    (reqs[r].entry = "function" /\ reqs[r].body.kind = "json"
       /\ reqs[r].result = "ok") =>
      LET e == EventOf(reqs[r]) IN
        IF reqs[r].body.data.callerType = "manager"
        THEN /\ e.entity.personType = "manager"
             /\ e.refers.manager.present /\ ~e.refers.user.present
        ELSE /\ e.entity.personType = "user"
             /\ e.refers.user.present /\ ~e.refers.manager.present
             /\ reqs[r].loc.personType = "user"

\* C15: identity resolution follows the documented table for every combination
\* of present and absent fields: for a team-member author with a referenced
\* manager record the sender id is the author id, else the record's id, and the
\* sender name the record's name, else "Manager"; in every other case the
\* sender id is the author id, else the referenced customer's id, and the
\* sender name the first present of the customer's profile name, the
\* customer's name and the referenced chat's name, else "User".
Present(v) == v # None

FirstPresent(values) ==
  LET found == {i \in 1..Len(values) : Present(values[i])} IN
    IF found = {} THEN None
    ELSE values[CHOOSE i \in found : \A j \in found : i <= j]

TableSenderId(e) ==
  IF e.entity.personType = "manager" /\ e.refers.manager.present
  THEN FirstPresent(<<e.entity.personId, e.refers.manager.id>>)
  ELSE FirstPresent(<<e.entity.personId,
                      IF e.refers.user.present THEN e.refers.user.id ELSE None>>)

TableSenderName(e) ==
  IF e.entity.personType = "manager" /\ e.refers.manager.present
  THEN FirstPresent(<<e.refers.manager.name, "Manager">>)
  ELSE FirstPresent(<<IF e.refers.user.present THEN e.refers.user.profileName ELSE None,
                      IF e.refers.user.present THEN e.refers.user.name ELSE None,
                      IF e.refers.userChat.present THEN e.refers.userChat.name ELSE None,
                      "User">>)

C15_IdentityResolutionTable ==
  \A r \in ReqIds :
    (HasEvent(reqs[r]) /\ "pipeline" \in OpsOf(reqs[r])) =>
      LET e == EventOf(reqs[r]) IN
        /\ Present(TableSenderId(e)) => reqs[r].loc.senderId = TableSenderId(e)
        /\ reqs[r].loc.senderName = TableSenderName(e)
        /\ \A i \in 1..Len(reqs[r].log) :
             reqs[r].log[i].op = "pipeline" => reqs[r].log[i].senderId = reqs[r].loc.senderId

\* Manager record {M1, Alice} and no author id gave M1 / Alice.
C15_Witness ==
  \E r \in ReqIds :
    /\ reqs[r].entry = "webhook" /\ HasEvent(reqs[r]) /\ "pipeline" \in OpsOf(reqs[r])
    /\ reqs[r].body.data.entity.personType = "manager"
    /\ reqs[r].body.data.entity.personId = None
    /\ reqs[r].body.data.refers.manager = RefManager("M1", "Alice")
    /\ reqs[r].body.data.refers.user.present
    /\ reqs[r].loc.senderId = "M1" /\ reqs[r].loc.senderName = "Alice"

\* C16: the chat kind of the event is carried through unchanged: the agent
\* pipeline is invoked with a group peer and chat kind iff the event's chat
\* type is group, and every send made for the event, reply chunk or pairing
\* prompt, goes through the group-send variant iff the chat type is group and
\* through the direct variant otherwise.
C16_ChatKindCarriedThrough ==
  \A r \in ReqIds :
    HasEvent(reqs[r]) =>
      LET group == EventOf(reqs[r]).entity.chatType = "group" IN
        \A i \in 1..Len(reqs[r].log) :
          LET e == reqs[r].log[i] IN
            /\ e.op = "pipeline" =>
                 /\ e.via = (IF group THEN "group" ELSE "dm")
                 /\ e.chatType = (IF group THEN "channel" ELSE "direct")
            /\ e.op = "send" =>
                 e.via = (IF group THEN "sendGroupMessage" ELSE "sendUserChatMessage")

\* A group-chat message holding the trigger keyword, from an allowed sender,
\* reached the pipeline as a group event and its reply went out as a group send.
C16_Witness ==
  \E r \in ReqIds :
    /\ reqs[r].entry = "webhook" /\ HasEvent(reqs[r]) /\ "pipeline" \in OpsOf(reqs[r])
    /\ reqs[r].body.data.entity.chatType = "group"
    /\ reqs[r].target.triggerKeywords = <<KwAi>>
    /\ PolicyOf(reqs[r]) = "pairing"
    /\ \E i, j \in 1..Len(reqs[r].log) :
         /\ i < j
         /\ reqs[r].log[i].op = "pipeline" /\ reqs[r].log[i].via = "group"
         /\ reqs[r].log[j].op = "send" /\ reqs[r].log[j].via = "sendGroupMessage"

\* C17: in the delivery callback a reply chunk whose trimmed text is not empty
\* causes one send attempt and no more, a chunk with empty text causes none; a
\* failed send is logged and not retried, and the callback then completes, so
\* that later chunks of the event are still attempted.
ReplySends(req) == {i \in SendsOf(req) : req.log[i].code = 0}

NonBlankPayloads(req) ==
  {k \in 1..Len(req.payloads) :
     req.payloads[k] # Undef /\ Trimmed(req.payloads[k]) # <<>>}

C17_Attempts ==
  \A r \in ReqIds :
    /\ Cardinality(ReplySends(reqs[r])) = Cardinality(NonBlankPayloads(reqs[r]))
    /\ reqs[r].pc = "deliverSend" =>
         /\ NonBlankPayloads(reqs[r]) # {}
         /\ Len(reqs[r].payloads) \in NonBlankPayloads(reqs[r])

C17_OneAttemptPerChunk ==
  /\ []C17_Attempts
  /\ [][\A r \in 1..Len(reqs) :
          (reqs[r].pc = "deliverSend" /\ reqs'[r].errs = reqs[r].errs + 1) =>
            /\ reqs'[r].pc = "dispatch"
            /\ reqs'[r].log = reqs[r].log
            /\ reqs'[r].surfaced = reqs[r].surfaced]_vars

\* After a chunk whose send failed and was logged, the next chunk's send is
\* under way: two attempts for two chunks.
C17_Witness ==
  \E r \in ReqIds :
    /\ reqs[r].pc = "deliverSend" /\ reqs[r].errs = 1 /\ reqs[r].surfaced = 0
    /\ Len(reqs[r].payloads) = 2
    /\ Cardinality(ReplySends(reqs[r])) = 2

\* C18: no error of the send call made in the delivery callback reaches the
\* agent pipeline: whether the platform answers non-2xx or the HTTP request
\* itself fails, the callback completes normally after logging.
C18_SendErrorsNotSurfaced ==
  \A r \in ReqIds : reqs[r].surfaced = 0

\* The requests whose record a step changes.
Touched == {r \in ReqIds : reqs'[r] # reqs[r]}

\* A step of account start or stop: a run is added or a run stops.
StartOrStop ==
  \/ Len(runs') = Len(runs) + 1
  \/ \E i \in 1..Len(runs) : runs[i].state = "active" /\ runs'[i].state = "stopped"

C19_Step ==
  /\ (webhookTargets' # webhookTargets \/ functionTargets' # functionTargets)
       => StartOrStop /\ reqs' = reqs
  /\ reqs' # reqs
       => /\ webhookTargets' = webhookTargets
          /\ functionTargets' = functionTargets
          /\ runs' = runs
          /\ Len(reqs') >= Len(reqs)
          /\ Cardinality(Touched) <= 1
  /\ \A r \in ReqIds :
       reqs[r].pc # "failed" /\ reqs'[r].pc = "failed" => pending' = pending

\* C19: event processing never mutates the target registries. Whatever the
\* outcome of an event (filtered out, denied, pairing prompt, dispatched, send
\* failure, pipeline exception), a step of its processing leaves both
\* registries and the record of every other in-flight event unchanged; the
\* registries change only in a step of account start or stop.
C19_RegistriesChangeOnlyOnStartStop == [][C19_Step]_vars

\* Two events were processed while the account stayed registered: the first
\* ended in a pipeline exception, the second is sending its pairing prompt.
C19_Witness ==
  /\ Len(reqs) >= 2
  /\ reqs[1].pc = "failed" /\ "pipeline" \in OpsOf(reqs[1])
  /\ reqs[2].pc = "pairSend"
  /\ "default" \in DOMAIN webhookTargets
  /\ "default" \in DOMAIN functionTargets
  /\ webhookTargets["default"] = startWebhookTarget("default", accountOf(cfg, "default"))

\* The callbacks past a successful registry lookup whose task has not ended.
InFlight == {r \in ReqIds : reqs[r].pc \in
               {"reading", "readStore", "upsert", "pairSend", "dispatch", "deliverSend"}}

\* The account of request r is registered in the registry its entry point reads.
Registered(r) == reqs[r].accountId \in DOMAIN registryOf(reqs[r].entry)

\* The next step of request r's task can be taken.
CanContinue(r) ==
  /\ reqs[r].pc = "reading" => ENABLED BodyEnd(r, FrameEvents, LifeFunctionRequests)
  /\ reqs[r].pc = "readStore" => ENABLED StoreReadReturns(r) /\ ENABLED TaskThrows(r)
  /\ reqs[r].pc = "upsert" => ENABLED UpsertReturns(r) /\ ENABLED TaskThrows(r)
  /\ reqs[r].pc = "pairSend" => ENABLED PairSendReturns(r) /\ ENABLED TaskThrows(r)
  /\ reqs[r].pc = "dispatch" => ENABLED PipelineReturns(r) /\ ENABLED PipelineThrows(r)

C20_Running ==
  \A r \in InFlight :
    /\ reqs[r].target.accountId = reqs[r].accountId
    /\ ~Registered(r) => CanContinue(r)

C20_Step ==
  /\ \A r \in InFlight :
       /\ r \in InFlight' \/ reqs'[r].pc \in {"closed", "returned", "done", "failed"}
       /\ reqs'[r].target.accountId = reqs[r].target.accountId
       /\ reqs'[r].target.botName = reqs[r].target.botName
  /\ (\E a \in DOMAIN webhookTargets : a \notin DOMAIN webhookTargets') => reqs' = reqs

\* C20: an account stopped after a callback's registry lookup succeeded does
\* not cancel that callback's task. The stop leaves every request record as it
\* is, the task keeps the target it captured, and each of its next steps (the
\* pairing store, the agent pipeline, the send API) can still be taken while
\* the account is unregistered.
C20_StopDoesNotCancelTasks == []C20_Running /\ [][C20_Step]_vars

\* The only run of the account was stopped while a callback that had found its
\* target was still at work: the account is unregistered and the task, holding
\* its captured target, has the send of its pairing prompt in flight.
C20_Witness ==
  /\ Len(runs) = 1 /\ runs[1].state = "stopped"
  /\ "default" \notin DOMAIN webhookTargets
  /\ \E r \in ReqIds :
       /\ reqs[r].entry = "webhook" /\ reqs[r].status = 200
       /\ reqs[r].pc = "pairSend"
       /\ "send" \in OpsOf(reqs[r])
       /\ reqs[r].target = startWebhookTarget("default", accountOf(cfg, "default"))

\* The host's calls of one operation.
CallsOf(op) == {c \in 1..Len(calls) : calls[c].op = op}

\* C21: a health probe is bounded by its timeout (5 seconds when none is
\* given): once the timeout has elapsed before the platform call returned,
\* probeAccount has finished with a failed result; and a probe makes at most
\* one platform call.
C21_ProbeBoundedByTimeout ==
  \A c \in CallsOf("probeAccount") :
    /\ calls[c].requests <= 1
    /\ calls[c].timer = "fired" => calls[c].pc = "done" /\ calls[c].result # "ok"

\* The group allow list configured for the request's account.
GroupListOf(req) == cfg[req.accountId].groupAllowFrom

\* The request carries a message of a group chat, from a person, with a chat id.
IsGroupMessage(req) ==
  /\ HasEvent(req)
  /\ EventOf(req).type = "Message"
  /\ EventOf(req).entity.present
  /\ EventOf(req).entity.personType # "bot"
  /\ EventOf(req).entity.chatType = "group"

\* C22: when the account's group allow list is not empty, a group-chat event
\* whose chat id is not in the list causes no send and no agent-pipeline
\* invocation (an empty list leaves groups unrestricted).
C22_GroupAllowListRestricts ==
  \A r \in ReqIds :
    (/\ IsGroupMessage(reqs[r])
     /\ GroupListOf(reqs[r]) # {}
     /\ EventOf(reqs[r]).entity.chatId \notin GroupListOf(reqs[r]))
      => OpsOf(reqs[r]) \cap {"send", "pipeline"} = {}

\* C23: a group-chat event of a group listed in the group allow list passes
\* the filter whether or not its text holds a trigger keyword.
C23_ListedGroupNeedsNoKeyword ==
  \A r \in ReqIds :
    (/\ IsGroupMessage(reqs[r])
     /\ EventOf(reqs[r]).entity.chatId \in GroupListOf(reqs[r])
     /\ rawBodyOf(EventOf(reqs[r]).entity) # <<>>)
      => PassedFilter(reqs[r])

Digits == {"4", "5"}

\* The documented target forms, after the channel-talk: prefix.
IsGroupNameTarget(name) == name # <<>> /\ name[1] = "@"
IsNumericTarget(name) == name # <<>> /\ \A i \in 1..Len(name) : name[i] \in Digits
IsUserChatTarget(name) ==
  name # <<>> /\ ~IsGroupNameTarget(name) /\ ~IsNumericTarget(name)
    /\ ~startsWith(name, GroupPrefix)

\* The target of the call is the channel prefix followed by name.
TargetIs(call, name) == call.to = ChannelPrefix \o name

\* C24: sendText picks the send variant from the target as documented:
\* channel-talk:@<groupName> and channel-talk:<numeric group id> go to the
\* group chat, a user-chat id goes to the user chat; for an unconfigured
\* account sendText returns an error and makes no send call.
C24_SendTextVariantAsDocumented ==
  \A c \in CallsOf("sendText") :
    IF ~configured(cfg[calls[c].accountId])
    THEN calls[c].sends = <<>> /\ calls[c].pc = "done" /\ calls[c].result # "ok"
    ELSE \A name \in OutboundNames :
           TargetIs(calls[c], name) =>
             /\ Len(calls[c].sends) = 1
             /\ (IsGroupNameTarget(name) \/ IsNumericTarget(name))
                  => calls[c].sends[1].via = "sendGroupMessage"
             /\ IsUserChatTarget(name) => calls[c].sends[1].via = "sendUserChatMessage"

\* The text holds no run of three backquotes, hence no fence line.
FenceFree(text) ==
  \A i \in 1..Len(text) - 2 : ~(text[i] = BQ /\ text[i + 1] = BQ /\ text[i + 2] = BQ)

\* C25: block conversion is round-trip-stable for fence-free text: the blocks
\* made of a text without a triple-backquote fence are exactly one text block
\* whose value is the text, and blocksToText of these blocks is the text.
C25_FenceFreeRoundTrip ==
  \A c \in CallsOf("sendText") :
    (calls[c].sends # <<>> /\ FenceFree(calls[c].text)) =>
      /\ calls[c].sends[1].blocks = <<TextBlock(calls[c].text)>>
      /\ blocksToText(calls[c].sends[1].blocks) = calls[c].text

\* The access check of the request's event has been made.
Decided(req) ==
  HasEvent(req) /\ req.pc \in {"upsert", "pairSend", "dispatch", "deliverSend", "done"}

\* Two events that are the same but for their referenced section.
SameButRefers(e1, e2) == [e1 EXCEPT !.refers = NoRefs] = [e2 EXCEPT !.refers = NoRefs]

\* C26: the referenced section of an event is never used for authorization:
\* two events that differ only in it have the same sender id checked against
\* the allow list and get the same access decision.
C26_RefersNotUsedForAccess ==
  \A r1, r2 \in ReqIds :
    (/\ Decided(reqs[r1]) /\ Decided(reqs[r2])
     /\ SameButRefers(EventOf(reqs[r1]), EventOf(reqs[r2])))
      => /\ reqs[r1].loc.senderId = reqs[r2].loc.senderId
         /\ "pipeline" \in OpsOf(reqs[r1]) <=> "pipeline" \in OpsOf(reqs[r2])

\* The trimmed plain text and the trimmed flattened block text of a message.
PlainOf(message) == IF message.plainText = Undef THEN <<>> ELSE trim(message.plainText)
FlatOf(message) == IF message.hasBlocks THEN trim(blocksToText(message.blocks)) ELSE <<>>

\* The text the message stands for: its plain text, or else its block text.
TextOf(message) == IF PlainOf(message) # <<>> THEN PlainOf(message) ELSE FlatOf(message)

\* C27: the text used for filtering and dispatch is the flattened plain text
\* whichever form the source used: a message is dropped as empty only when
\* neither its plainText nor its flattened blocks hold non-whitespace text,
\* and when plainText is absent or empty the trimmed block text is used.
C27_TextFromEitherForm ==
  \A r \in ReqIds :
    (/\ reqs[r].entry = "webhook" /\ HasEvent(reqs[r])
     /\ reqs[r].body.data.type = "Message" /\ reqs[r].body.data.entity.present
     /\ reqs[r].body.data.entity.personType # "bot"
     /\ chatIdOf(reqs[r].body.data) \notin {None, ""}
     /\ Len(reqs[r].target.triggerKeywords) = 0)
      => /\ PassedFilter(reqs[r]) <=> TextOf(reqs[r].body.data.entity) # <<>>
         /\ PassedFilter(reqs[r]) => reqs[r].loc.rawBody = TextOf(reqs[r].body.data.entity)

\* The chat id the event names: the message's when the field is there, else
\* the referenced chat's.
NamedChatId(event) ==
  IF event.entity.chatId # None THEN event.entity.chatId
  ELSE IF event.refers.userChat.present THEN event.refers.userChat.id ELSE None

\* The chat ids the calls of a request were made with.
ChatIdsOf(req) ==
  {req.log[i].chatId : i \in {j \in 1..Len(req.log) : req.log[j].op \in {"send", "pipeline"}}}

\* C28: the chat id of an event is message.chatId when present, otherwise the
\* referenced chat's id, and every send and pipeline call is made with it; a
\* webhook event with neither is dropped silently (acknowledged, no store
\* call, send or pipeline invocation, nothing logged as an error); an event
\* synthesized by the function path always carries a chat id.
C28_ChatIdResolution ==
  \A r \in ReqIds :
    HasEvent(reqs[r]) =>
      /\ PassedFilter(reqs[r]) =>
           /\ reqs[r].loc.chatId = NamedChatId(EventOf(reqs[r]))
           /\ ChatIdsOf(reqs[r]) \subseteq {NamedChatId(EventOf(reqs[r]))}
      /\ NamedChatId(EventOf(reqs[r])) = None =>
           /\ reqs[r].entry = "webhook"
           /\ reqs[r].pc = "returned" /\ reqs[r].status = 200 /\ reqs[r].errs = 0
           /\ OpsOf(reqs[r]) \cap BusinessOps = {}
      /\ reqs[r].entry = "function" =>
           /\ EventOf(reqs[r]).entity.chatId \notin {None, ""}
           /\ EventOf(reqs[r]).entity.chatId
                \in {reqs[r].body.data.chatNestedId, reqs[r].body.data.chatId}

\* A webhook event without a chat id of its own was answered with a pairing
\* prompt sent to the referenced chat.
C28_Witness ==
  \E r \in ReqIds :
    /\ reqs[r].entry = "webhook" /\ HasEvent(reqs[r])
    /\ reqs[r].body.data.entity.chatId = None
    /\ reqs[r].pc = "pairSend"
    /\ ChatIdsOf(reqs[r]) = {"c2"}

\* A failed task stays acknowledged and has been logged once.
C29_Failed ==
  \A r \in ReqIds :
    reqs[r].pc = "failed" => reqs[r].status = 200 /\ reqs[r].errs = 1

C29_Step ==
  \A r \in ReqIds :
    /\ reqs[r].pc = "failed" => reqs'[r] = reqs[r]
    /\ reqs'[r].errs # reqs[r].errs =>
         /\ reqs'[r].pc = "failed"
         /\ reqs'[r].errs = reqs[r].errs + 1
         /\ reqs'[r].log = reqs[r].log
         /\ reqs'[r].status = reqs[r].status
         /\ Len(reqs') = Len(reqs)
         /\ \A q \in ReqIds \ {r} : reqs'[q] = reqs[q]
         /\ pending' = pending

\* C29: every failure of a background task after the acknowledgment (in the
\* pairing store, routing, the pairing-prompt send or the agent pipeline) is
\* caught and logged once, leaves the answer given to the HTTP caller and
\* every other task as they are, and is terminal: the failed task makes no
\* further call and no request is queued again for it.
C29_TaskFailureIsTerminal == []C29_Failed /\ [][C29_Step]_vars

\* The first event's pipeline threw; the second event, received meanwhile,
\* went on to send its pairing prompt and finished.
C29_Witness ==
  /\ Len(reqs) >= 2
  /\ reqs[1].pc = "failed" /\ reqs[1].errs = 1 /\ "pipeline" \in OpsOf(reqs[1])
  /\ reqs[2].pc = "done" /\ "send" \in OpsOf(reqs[2]) /\ reqs[2].errs = 0

\* C30: after any sequence of account starts and stops the webhook registry
\* and the function registry hold exactly the same account ids, no state in
\* between shows one without the other, and only configured accounts are in
\* them, each under its own id.
C30_RegistriesHoldSameAccounts ==
  /\ DOMAIN webhookTargets = DOMAIN functionTargets
  /\ \A a \in DOMAIN webhookTargets :
       /\ configured(accountOf(cfg, a))
       /\ webhookTargets[a].accountId = a
       /\ functionTargets[a].accountId = a

\* The account was started, stopped and started again: both registries hold it.
C30_Witness ==
  /\ \E i, j \in 1..Len(runs) :
       /\ i < j
       /\ runs[i].accountId = "default" /\ runs[i].state = "stopped"
       /\ runs[j].accountId = "default" /\ runs[j].state = "active"
  /\ DOMAIN webhookTargets = {"default"}
  /\ DOMAIN functionTargets = {"default"}

\* The runs of startAccount that registered and whose abort signal has not fired.
ActiveRuns == {i \in 1..Len(runs) : runs[i].state = "active"}

\* C31: whenever at least one run of a configured account id is active, that
\* account id is present in the webhook registry and in the function registry,
\* also when a second run of the same id started before the first was aborted.
C31_ActiveRunKeepsAccountRegistered ==
  \A i \in ActiveRuns :
    /\ runs[i].accountId \in DOMAIN webhookTargets
    /\ runs[i].accountId \in DOMAIN functionTargets

\* The trigger keywords in force for the account when it is started.
ConfiguredKeywords(req) == startTriggerKeywords(accountOf(cfg, req.accountId))

\* C32: an event produced by the function entry point is never keyword-gated:
\* a well-formed command whose caller is not a bot is processed with an empty
\* trigger-keyword list and passes the filter, in a group chat too and
\* whatever trigger keywords the account configures.
C32_FunctionEventsNotKeywordGated ==
  \A r \in ReqIds :
    (/\ reqs[r].entry = "function"
     /\ reqs[r].body.kind = "json"
     /\ ~Malformed(reqs[r].body)
     /\ ~AuthorIsBot(reqs[r])) =>
      /\ reqs[r].target.triggerKeywords = <<>>
      /\ PassedFilter(reqs[r])
      /\ OpsOf(reqs[r]) \cap BusinessOps # {}

\* A command invoked in a group chat, whose text holds none of the trigger
\* keywords the account was started with, reached the agent pipeline.
C32_Witness ==
  \E r \in ReqIds :
    /\ reqs[r].entry = "function" /\ HasEvent(reqs[r])
    /\ EventOf(reqs[r]).entity.chatType = "group"
    /\ ConfiguredKeywords(reqs[r]) = <<KwAi>>
    /\ ~ContainsFolded(Trimmed(EventOf(reqs[r]).entity.plainText), KwAi)
    /\ "pipeline" \in OpsOf(reqs[r])

\* The request's event carries neither an author id nor a referenced id.
CarriesNoId(req) ==
  /\ req.body.kind = "json"
  /\ IF req.entry = "webhook"
     THEN /\ req.body.data.entity.present
          /\ req.body.data.entity.personId = None
          /\ RefId(req.body.data.refers.user) = None
          /\ RefId(req.body.data.refers.manager) = None
     ELSE req.body.data.callerId = None

\* The sender ids the request's handling used: for the allow-list check, in
\* its pairing request and prompt, and in the pipeline context.
SenderIdsUsed(req) ==
  {req.loc.senderId}
    \cup {req.log[i].senderId :
            i \in {j \in 1..Len(req.log) :
                     req.log[j].op \in {"upsertPairingRequest", "pipeline"}}}

\* The requests whose event got past the filter.
Identified == {r \in ReqIds : HasEvent(reqs[r]) /\ PassedFilter(reqs[r])}

\* C33: the senderId used for the allow-list check, the pairing request and
\* the pipeline context is never absent; an event carrying neither an author
\* id nor a referenced id has the senderId "unknown", so under the pairing
\* policy all such events are let through or not by the one allow-list entry
\* "unknown" and share one pairing request, with one code and one prompt.
C33_SenderIdNeverAbsent ==
  /\ None \notin DOMAIN pending
  /\ \A r \in Identified :
       /\ None \notin SenderIdsUsed(reqs[r])
       /\ CarriesNoId(reqs[r]) =>
            /\ SenderIdsUsed(reqs[r]) = {"unknown"}
            /\ (PolicyOf(reqs[r]) = "pairing" /\ StoreWasRead(reqs[r])) =>
                 ("pipeline" \in OpsOf(reqs[r])
                    <=> InAllowLists("unknown", reqs[r].accountId))
            /\ reqs[r].code # 0 => reqs[r].code = pending["unknown"]
  /\ Cardinality({r \in Identified : CarriesNoId(reqs[r]) /\ reqs[r].created}) <= 1

\* Two events without any id, from two chats, were both handled: the first
\* created the pairing request of the sender unknown and sent its prompt, the
\* second got the same code and sent nothing.
C33_Witness ==
  \E r1, r2 \in Identified :
    /\ CarriesNoId(reqs[r1]) /\ CarriesNoId(reqs[r2])
    /\ reqs[r1].entry = "webhook" /\ reqs[r2].entry = "webhook"
    /\ reqs[r1].loc.chatId # reqs[r2].loc.chatId
    /\ reqs[r1].pc = "done" /\ reqs[r2].pc = "done"
    /\ reqs[r1].created /\ ~reqs[r2].created
    /\ reqs[r1].code = reqs[r2].code /\ reqs[r1].code # 0
    /\ DOMAIN pending = {"unknown"}

====
